---------------------------- MODULE Spec2Model ----------------------------
(***************************************************************************)
(* Flow fields: the WebGL variant (class FlowFieldsGL with its shaders and *)
(* page-level functions) and the canvas-2D variant (flow.js).              *)
(*                                                                         *)
(* JavaScript numbers and GLSL floats are modelled as exact rationals      *)
(* [n |-> numerator, d |-> denominator], always in lowest terms with       *)
(* d > 0, so that equal numbers are equal records.  A Math.random() draw   *)
(* is an input: a rational in [0, 1) taken from a small set.               *)
(***************************************************************************)
EXTENDS Integers, Sequences, FiniteSets, TLC

VARIABLES
    flowFieldsGL,   \* the page's `let flowFieldsGL`: Undefined or the instance
    glCanvas,       \* the WebGL page's canvas element: [width, height]
    glRaf,          \* animation-frame callbacks the WebGL page has pending
    initResult,     \* what initWebGL returned: "true", "false"; "none" before it ran
    physicsPass,    \* the last physics pass: which texture it read and wrote
    forceFields,    \* flow.js: let forceFields
    config,         \* flow.js: let config (the keys the model reads)
    time,           \* flow.js: let time
    paused,         \* flow.js: let paused
    animationId,    \* flow.js: let animationId (a request is pending)
    spawnTypeOnClick, \* flow.js: let spawnTypeOnClick
    particles,      \* flow.js: let particles
    canvas,         \* flow.js: the canvas element: [width, height]
    cpuMouse,       \* flow.js: let mouse
    noise,          \* flow.js: let noise (the NoiseGenerator: seed and perm)
    boidsPage,      \* the boids page: Undefined, or its boids, mouse and canvas
    rainbowLife,    \* the Rainbow Life page: Undefined, or its script's variables
    pointerLeft     \* flow.js's canvas: the pointer left it and has not moved over it since

glVars  == <<flowFieldsGL, glCanvas, glRaf, initResult, physicsPass>>
cpuVars == <<forceFields, config, time, paused, animationId, spawnTypeOnClick, particles, canvas,
             cpuMouse, noise>>
pageVars == <<boidsPage, rainbowLife, pointerLeft>>
vars    == <<glVars, cpuVars, pageVars>>

NULL == "null"
\* `let flowFieldsGL;` before anything is assigned to it.
Undefined == [undefined |-> TRUE]
\* null, for a global that is null or a number.
NullValue == [null |-> TRUE]

\* The one element of a one-element set.  { F(v) : v \in {e} } computes e
\* once, as a statement computes a local, before F uses it.
Only(S) == CHOOSE x \in S : TRUE

---------------------------------------------------------------------------
(* Exact rational arithmetic.                                              *)

Abs(i) == IF i < 0 THEN -i ELSE i

RECURSIVE GCD(_, _)
GCD(a, b) == IF b = 0 THEN a ELSE GCD(b, a % b)

Rat(n, d) ==
    LET s == IF d < 0 THEN -1 ELSE 1
        g == GCD(Abs(n), Abs(d))
    IN  [n |-> (s * n) \div g, d |-> (s * d) \div g]

I(n)  == [n |-> n, d |-> 1]
Zero  == I(0)
One   == I(1)
Half  == [n |-> 1, d |-> 2]

RAdd(a, b) ==
    LET g == GCD(a.d, b.d)
    IN  Rat(a.n * (b.d \div g) + b.n * (a.d \div g), (a.d \div g) * b.d)
RNeg(a)    == [n |-> -a.n, d |-> a.d]
RSub(a, b) == RAdd(a, RNeg(b))
RMul(a, b) ==
    LET g1 == GCD(Abs(a.n), b.d)
        g2 == GCD(Abs(b.n), a.d)
        h1 == IF g1 = 0 THEN 1 ELSE g1
        h2 == IF g2 = 0 THEN 1 ELSE g2
    IN  Rat((a.n \div h1) * (b.n \div h2), (a.d \div h2) * (b.d \div h1))
RDiv(a, b) == RMul(a, IF b.n < 0 THEN [n |-> -b.d, d |-> -b.n] ELSE [n |-> b.d, d |-> b.n])
RLt(a, b)  == RSub(a, b).n < 0
RLe(a, b)  == RSub(a, b).n <= 0
RAbs(a)    == [n |-> Abs(a.n), d |-> a.d]
RMax(a, b) == IF RLt(a, b) THEN b ELSE a
RMin(a, b) == IF RLt(b, a) THEN b ELSE a
\* Math.floor
Floor(a)   == a.n \div a.d

\* The exact square root of a perfect square.
ISqrt(k) == CHOOSE r \in 0..k : r * r = k
\* Math.sqrt / length() where the result is rational: every geometry the
\* model evaluates puts the two points on a lattice direction.
RSqrt(a) == [n |-> ISqrt(a.n), d |-> ISqrt(a.d)]
Length(dx, dy) ==
    IF dy.n = 0 THEN RAbs(dx)
    ELSE IF dx.n = 0 THEN RAbs(dy)
    ELSE RSqrt(RAdd(RMul(dx, dx), RMul(dy, dy)))

Vec(x, y)   == [x |-> x, y |-> y]
VZero       == Vec(Zero, Zero)
VAdd(a, b)  == Vec(RAdd(a.x, b.x), RAdd(a.y, b.y))
VSub(a, b)  == Vec(RSub(a.x, b.x), RSub(a.y, b.y))
VScale(a, k) == Vec(RMul(a.x, k), RMul(a.y, k))


---------------------------------------------------------------------------
(* FlowFieldsGL: construction.                                             *)

\* Math.ceil(Math.sqrt(count))
CeilSqrt(count) == CHOOSE s \in 0..count : s * s >= count /\ (s = 0 \/ (s - 1) * (s - 1) < count)

\* this.config before ...initialConfig is applied (the keys the model reads).
DefaultConfig ==
    [ particleCount      |-> 250000,
      noiseScale         |-> Rat(3, 1000),
      speed              |-> One,
      noiseMode          |-> 1,
      backgroundStrength |-> One,
      forceFieldStrength |-> One,
      brownianMotion     |-> Rat(3, 2),
      respawnRate        |-> Rat(2, 1000),
      globalGravity      |-> Zero,
      forceSpawnRate     |-> Zero,
      forceLifetime      |-> One,
      maxForceRadius     |-> I(200),
      friction           |-> Rat(5, 1000),
      chargeInteraction  |-> Zero,
      chargeRatio        |-> Half,
      gravityInteraction |-> Zero,
      fadeAmount         |-> Rat(3, 100),
      particleOpacity    |-> Rat(15, 100),
      particleSize       |-> Rat(3, 2),
      time               |-> 0 ]

\* { ...defaults, ...initialConfig }
MergeConfig(initialConfig) ==
    [k \in DOMAIN DefaultConfig |->
        IF k \in DOMAIN initialConfig THEN initialConfig[k] ELSE DefaultConfig[k]]

InactiveMouse == [x |-> I(-1000), y |-> I(-1000), radius |-> I(150), strength |-> One, mode |-> 0]

ProgramNames == {"physics", "render", "trail", "copy"}

\* createShader: null when the shader does not compile.
CreateShader(compiles) == IF compiles THEN "shader" ELSE NULL

\* createProgram: attachShader is handed whatever createShader returned, and
\* its shader argument is not nullable, so a null shader raises a TypeError
\* (outcome "throw").  A program that does not link is logged and null is
\* returned.
CreateProgram(compiles, links) ==
    LET vertexShader   == CreateShader(compiles)
        fragmentShader == CreateShader(compiles)
    IN  IF vertexShader = NULL \/ fragmentShader = NULL
        THEN "throw"
        ELSE IF ~links
        THEN NULL
        ELSE "program"

\* initializeParticles: size*size texels, the first particleCount of them
\* filled from four Math.random() draws each, the rest left at the typed array's zeros.
ZeroTexel == [x |-> Zero, y |-> Zero, vx |-> Zero, vy |-> Zero]
InitializeParticles(particleCount, size, draws, cv) ==
    [i \in 1..(size * size) |->
        IF i <= particleCount
        THEN [ x  |-> RMul(draws[i].x, cv.width),
               y  |-> RMul(draws[i].y, cv.height),
               vx |-> RMul(RSub(draws[i].vx, Half), I(2)),
               vy |-> RMul(RSub(draws[i].vy, Half), I(2)) ]
        ELSE ZeroTexel]

\* A variant of createParticleBuffer that rounds the row instead of flooring it.
CreateParticleBufferRounded(particleCount, size) ==
    [k \in 1..particleCount |->
        Vec(Rat(2 * ((k - 1) % size) + 1, 2 * size),
            Rat(2 * ((2 * (k - 1) + size) \div (2 * size)) + 1, 2 * size))]

\* createParticleBuffer(): a_texCoord of particle i = k - 1, the pair
\* ((i % size) + 0.5) / size, (Math.floor(i / size) + 0.5) / size.
CreateParticleBuffer(particleCount, size) ==
    [k \in 1..particleCount |->
        Vec(Rat(2 * ((k - 1) % size) + 1, 2 * size),
            Rat(2 * ((k - 1) \div size) + 1, 2 * size))]

\* The pixel of the trail texture the model follows (its lower left
\* corner), inside every canvas size the model uses.
TrailPixel == [x |-> 100, y |-> 50]

\* createTrailTexture() and the clear that follows it: an RGBA8 texture of
\* the canvas's size, black.  pixel is a colour channel of TrailPixel, 0..255.
CreateTrailTexture(cv) == [width |-> cv.width, height |-> cv.height, pixel |-> 0]

\* new FlowFieldsGL(canvas, initialConfig).  env: what the browser answers
\* (context, compile and link status, how its GL converts a colour to 8
\* bits) and the initial particle draws.
\* The result is [thrown |-> TRUE] or [thrown |-> FALSE, instance |-> ...].
NewFlowFieldsGL(initialConfig, env) ==
    LET cfg   == MergeConfig(initialConfig)
        progs == [p \in ProgramNames |->
                    CreateProgram(p \notin env.badShaders, p \notin env.badLinks)]
        size  == CeilSqrt(cfg.particleCount)
        data  == InitializeParticles(cfg.particleCount, size, env.particles, env.canvas)
    IN  IF ~env.webgl2 THEN [thrown |-> TRUE]
        ELSE IF \E p \in ProgramNames : progs[p] = "throw" THEN [thrown |-> TRUE]
        ELSE [ thrown   |-> FALSE,
               instance |->
                 [ config            |-> cfg,
                   forceFields       |-> << >>,
                   maxForceFields    |-> 40,
                   enabledForceTypes |-> <<TRUE, TRUE, TRUE, TRUE, TRUE>>,
                   mouse             |-> InactiveMouse,
                   paused            |-> FALSE,
                   programs          |-> progs,
                   textureSize       |-> size,
                   particleBuffer    |-> CreateParticleBuffer(cfg.particleCount, size),
                   particleTextures  |-> [t \in 0..1 |-> data],
                   currentTexture    |-> 0,
                   trail             |-> CreateTrailTexture(env.canvas),
                   gl                |-> [convert |-> env.convert],
                   touchStart        |-> Vec(Zero, Zero),
                   animationId       |-> NULL ] ]

---------------------------------------------------------------------------
(* FlowFieldsGL: the force field set.                                      *)

\* A variant of the eviction that never drops the oldest field.
EvictNever(self) == self.forceFields

\* if (this.forceFields.length >= this.maxForceFields) this.forceFields.shift()
Evict(self) ==
    IF Len(self.forceFields) >= self.maxForceFields
    THEN Tail(self.forceFields) ELSE self.forceFields

\* addForceField(x, y, type).  r: the Math.random() draws, in the order the
\* code takes them: pick (only when type < 0), life, strength, radius,
\* rotation, vx, vy.
AddForceField(self, x, y, type, r) ==
    LET shifted == Evict(self)
        enabledTypes == SelectSeq(<<0, 1, 2, 3, 4>>, LAMBDA i : self.enabledForceTypes[i + 1])
        finalType == IF type < 0
                     THEN enabledTypes[Floor(RMul(r.pick, I(Len(enabledTypes)))) + 1]
                     ELSE type
        baseLife    == RAdd(I(500), RMul(r.life, I(500)))
        minRadius   == RMax(I(40), RMul(self.config.maxForceRadius, Rat(3, 10)))
        radiusRange == RSub(self.config.maxForceRadius, minRadius)
        field == [ x        |-> x,
                   y        |-> y,
                   type     |-> finalType,
                   strength |-> RAdd(I(50), RMul(r.strength, I(100))),
                   radius   |-> RAdd(minRadius, RMul(r.radius, radiusRange)),
                   rotation |-> IF RLt(Half, r.rotation) THEN 1 ELSE -1,
                   life     |-> RMul(baseLife, self.config.forceLifetime),
                   vx       |-> RMul(RSub(r.vx, Half), Half),
                   vy       |-> RMul(RSub(r.vy, Half), Half) ]
    IN  IF type < 0 /\ Len(enabledTypes) = 0
        THEN [self EXCEPT !.forceFields = shifted]
        ELSE [self EXCEPT !.forceFields = Append(shifted, field)]

\* One pass of the loop body of updateForceFields over field f.
StepField(f, width, height) ==
    LET x1 == RAdd(f.x, f.vx)
        y1 == RAdd(f.y, f.vy)
    IN  [f EXCEPT !.x = x1,
                  !.y = y1,
                  !.life = RSub(f.life, One),
                  !.vx = IF RLt(x1, Zero) \/ RLt(width, x1) THEN RNeg(f.vx) ELSE f.vx,
                  !.vy = IF RLt(y1, Zero) \/ RLt(height, y1) THEN RNeg(f.vy) ELSE f.vy]

\* The for loop of updateForceFields: every field is stepped once, from the
\* last to the first, and spliced out at once when its life is <= 0.  A
\* splice at i moves only fields the loop has already visited, so the loop
\* leaves the stepped fields whose life is > 0, in their order.
UpdateLoop(fields, width, height) ==
    SelectSeq([i \in 1..Len(fields) |-> StepField(fields[i], width, height)],
              LAMBDA f : ~RLe(f.life, Zero))

\* A variant of updateForceFields whose spawn tests admit equality.
UpdateForceFieldsInclusive(self, cv, r) ==
    Only({ IF /\ RLe(Zero, self.config.forceSpawnRate)
              /\ RLe(r.auto, RDiv(self.config.forceSpawnRate, I(60)))
              /\ Len(stepped.forceFields) < stepped.maxForceFields
           THEN AddForceField(stepped, RMul(r.ax, cv.width), RMul(r.ay, cv.height), -1, r.add)
           ELSE stepped :
           stepped \in { [self EXCEPT !.forceFields =
                            UpdateLoop(self.forceFields, cv.width, cv.height)] } })

\* updateForceFields().  r.auto is the draw compared with forceSpawnRate/60,
\* r.ax and r.ay place the spawned field, r.add are addForceField's draws.
UpdateForceFields(self, cv, r) ==
    Only({ IF /\ RLt(Zero, self.config.forceSpawnRate)
              /\ RLt(r.auto, RDiv(self.config.forceSpawnRate, I(60)))
              /\ Len(stepped.forceFields) < stepped.maxForceFields
           THEN AddForceField(stepped, RMul(r.ax, cv.width), RMul(r.ay, cv.height), -1, r.add)
           ELSE stepped :
           stepped \in { [self EXCEPT !.forceFields =
                            UpdateLoop(self.forceFields, cv.width, cv.height)] } })

---------------------------------------------------------------------------
(* The physics shader.                                                     *)
(*                                                                         *)
(* snoise, random and cos/sin cannot be computed in exact arithmetic.      *)
(* Each is replaced by a stand-in with the same arguments and the same     *)
(* range that, like the original, is a function of its arguments alone.    *)

\* snoise(v): a value in [-1, 1].
Snoise(v) == Rat(((v.x.n + 2 * v.y.n + v.x.d + v.y.d) % 5) - 2, 2)

\* random(st): a value in [0, 1).
Random(st) == Rat((st.x.n + 3 * st.y.n + st.x.d + st.y.d) % 4, 4)

\* vec2(cos(angle), sin(angle)): a unit vector.
UnitDirs ==
    << Vec(One, Zero), Vec(Rat(3, 5), Rat(4, 5)), Vec(Zero, One), Vec(Rat(-4, 5), Rat(3, 5)),
       Vec(I(-1), Zero), Vec(Rat(-3, 5), Rat(-4, 5)), Vec(Zero, I(-1)), Vec(Rat(4, 5), Rat(-3, 5)) >>
CosSin(angle) == UnitDirs[((angle.n + angle.d) % 8) + 1]

\* getForceFieldUniforms(): 40 slots of 8 floats; slot i describes
\* forceFields[i] with its life divided by 500, or is marked inactive.
GetForceFieldUniforms(self) ==
    [i \in 0..(39) |->
        IF i < (IF self.maxForceFields < 40 THEN self.maxForceFields ELSE 40)
           /\ i + 1 <= Len(self.forceFields)
        THEN LET f == self.forceFields[i + 1]
             IN  [ x |-> f.x, y |-> f.y, type |-> f.type, strength |-> f.strength,
                   radius |-> f.radius, rotation |-> f.rotation,
                   life |-> RDiv(f.life, I(500)), active |-> 1 ]
        ELSE [ x |-> Zero, y |-> Zero, type |-> 0, strength |-> Zero, radius |-> Zero,
               rotation |-> 0, life |-> Zero, active |-> 0 ]]

\* normalize(diff) and vec2(-diff.y, diff.x) / dist
Normalize(diff, dist) == Vec(RDiv(diff.x, dist), RDiv(diff.y, dist))
Perp(diff, dist)      == Vec(RDiv(RNeg(diff.y), dist), RDiv(diff.x, dist))
Dot(a, b)             == RAdd(RMul(a.x, b.x), RMul(a.y, b.y))

\* The per-type branch of getForceFieldEffect: what a field of scaled
\* strength s adds to totalForce.
TypeForce(u, s, dir, perp, pos, u_time) ==
    CASE u.type = 0 -> VScale(dir, RNeg(s))
      [] u.type = 1 -> VScale(dir, s)
      [] u.type = 2 -> VScale(perp, RMul(s, I(u.rotation)))
      [] u.type = 3 -> VAdd(VScale(dir, RNeg(RMul(s, I(2)))), VScale(perp, RMul(s, Rat(3, 10))))
      [] OTHER ->
           VScale(CosSin(RMul(Snoise(Vec(RAdd(RDiv(pos.x, I(10)), Rat(u_time, 100)),
                                         RAdd(RDiv(pos.y, I(10)), Rat(u_time, 100)))),
                              Rat(628318, 100000))),
                  RMul(s, I(2)))

\* float s = (strength / 100.0) * falloff * life, falloff = 1 - dist/radius
ScaledStrength(u, dist) ==
    RMul(RMul(RDiv(u.strength, I(100)), RSub(One, RDiv(dist, u.radius))), u.life)

\* The body of the loop of getForceFieldEffect for one uniform slot: what
\* the slot adds to totalForce at pos.
SlotForce(u, pos, diff, u_time) ==
    IF u.active = 0 THEN VZero
    ELSE IF RLt(RMul(u.radius, u.radius), Dot(diff, diff)) \/ RLt(Dot(diff, diff), I(25))
    THEN VZero
    ELSE Only({ Only({ TypeForce(u, s, dir, perp, pos, u_time) :
                         s \in { ScaledStrength(u, dist) },
                         dir \in { Normalize(diff, dist) },
                         perp \in { Perp(diff, dist) } }) :
                dist \in { Length(diff.x, diff.y) } })

FieldContribution(u, pos, u_time) ==
    Only({ SlotForce(u, pos, diff, u_time) : diff \in { Vec(RSub(pos.x, u.x), RSub(pos.y, u.y)) } })

\* What each of the 16 rounds of the loop of getForceFieldEffect adds to
\* totalForce; a round i >= u_forceFieldCount is past the break.
LoopRounds(u_forceFields, u_forceFieldCount, pos, u_time) ==
    << >> \o [k \in 1..16 |->
                IF k - 1 >= u_forceFieldCount THEN VZero
                ELSE FieldContribution(u_forceFields[k - 1], pos, u_time)]

\* The sum of rounds lo..hi.  It is exact, so the rounds are added pairwise
\* rather than in sequence.
RECURSIVE SumRounds(_, _, _)
SumRounds(rounds, lo, hi) ==
    IF lo = hi THEN rounds[lo]
    ELSE VAdd(SumRounds(rounds, lo, (lo + hi) \div 2),
              SumRounds(rounds, (lo + hi) \div 2 + 1, hi))

\* getForceFieldEffect(pos): for (int i = 0; i < 16; i++) { ... }
GetForceFieldEffect(u_forceFields, u_forceFieldCount, pos, u_time) ==
    Only({ SumRounds(rounds, 1, Len(rounds)) :
             rounds \in { LoopRounds(u_forceFields, u_forceFieldCount, pos, u_time) } })

\* The mouse interaction block of main().
MouseModeForce(mouse, speed, force, dir, perp) ==
    CASE mouse.mode = 0 -> VScale(perp, RMul(RMul(speed, I(2)), force))
      [] mouse.mode = 1 -> VScale(dir, RNeg(RMul(force, I(3))))
      [] OTHER          -> VScale(dir, RMul(force, I(3)))

MouseAt(mouse, speed, diff, dist) ==
    MouseModeForce(mouse, speed,
                   RMul(RDiv(RSub(mouse.radius, dist), mouse.radius), mouse.strength),
                   Normalize(diff, dist), Perp(diff, dist))

MouseDiff(mouse, speed, diff) ==
    IF RLt(Dot(diff, diff), RMul(mouse.radius, mouse.radius)) /\ RLt(I(25), Dot(diff, diff))
    THEN MouseAt(mouse, speed, diff, Length(diff.x, diff.y))
    ELSE VZero

MouseForce(pos, mouse, speed) ==
    MouseDiff(mouse, speed, Vec(RSub(pos.x, mouse.x), RSub(pos.y, mouse.y)))

\* The centre of texel i (1-based) of a size x size texture: v_texCoord.
TexCoord(i, size) ==
    Vec(Rat(2 * ((i - 1) % size) + 1, 2 * size), Rat(2 * ((i - 1) \div size) + 1, 2 * size))

\* "Wrap around edges": the four if statements of main().
Wrap(p, extent) ==
    LET a == IF RLt(p, Zero) THEN RAdd(p, extent) ELSE p
    IN  IF RLt(extent, a) THEN RSub(a, extent) ELSE a

\* getNoiseValue and the flow direction of main(): zero in forces-only
\* mode, else a unit vector scaled by speed * backgroundStrength.  (The
\* five noise modes all reduce to snoise samples; one stand-in serves.)
FlowDir(pos, u) ==
    IF u.noiseMode = 5 THEN VZero
    ELSE VScale(CosSin(RMul(RAdd(Snoise(VAdd(VScale(pos, u.noiseScale),
                                             Vec(Rat(u.time, 10000), Rat(u.time, 10000)))),
                                 RMul(RAdd(pos.x, pos.y), Rat(1, 1000))),
                            Rat(12566, 1000))),
                RMul(u.speed, u.backgroundStrength))

\* The brownian term of main().
Brownian(pos, texCoord, u) ==
    VScale(Vec(RSub(Random(Vec(RAdd(RDiv(pos.x, I(10)), RMul(texCoord.y, I(999))),
                               RAdd(I(u.time), RMul(texCoord.x, I(777))))), Half),
               RSub(Random(Vec(RAdd(RMul(I(u.time), Rat(11, 10)), RMul(texCoord.y, I(555))),
                               RAdd(RDiv(pos.y, I(10)), RMul(texCoord.x, I(333))))), Half)),
           u.brownianMotion)

\* "Update velocity": momentum with friction in forces-only mode, else a
\* blend toward flowDir + forceEffect + brownian, flowDir having taken up
\* the mouse force and the global forces.
NewVelocity(vel, flow0, forceEffect, mouseForce, globalForces, brownian, u) ==
    IF u.noiseMode = 5
    THEN VScale(VAdd(vel, VScale(VAdd(VAdd(VAdd(forceEffect, mouseForce), globalForces),
                                      brownian), Rat(1, 10))),
                RSub(One, u.friction))
    ELSE VAdd(VScale(vel, Rat(7, 10)),
              VScale(VAdd(VAdd(VAdd(VAdd(flow0, mouseForce), globalForces), forceEffect),
                          brownian), Rat(3, 10)))

\* "Update position", "Wrap around edges", "Random respawn".
MoveWrapRespawn(pos, vel1, texCoord, u) ==
    IF RLt(Random(VAdd(VScale(texCoord, I(777)), Vec(I(u.time), I(u.time)))), u.respawnRate)
    THEN [ x  |-> RMul(Random(Vec(RMul(texCoord.y, I(9999)),
                                  RAdd(RMul(I(u.time), Rat(37, 10)), RMul(texCoord.x, I(1111))))),
                       u.resolution.width),
           y  |-> RMul(Random(Vec(RAdd(RMul(I(u.time), Rat(23, 10)), RMul(texCoord.x, I(7777))),
                                  RMul(texCoord.y, I(3333)))),
                       u.resolution.height),
           vx |-> Zero, vy |-> Zero ]
    ELSE [ x  |-> Wrap(RAdd(pos.x, vel1.x), u.resolution.width),
           y  |-> Wrap(RAdd(pos.y, vel1.y), u.resolution.height),
           vx |-> vel1.x, vy |-> vel1.y ]

MainAt(pos, vel, texCoord, interaction, u) ==
    Only({ MoveWrapRespawn(pos, vel1, texCoord, u) :
             vel1 \in { Only({ NewVelocity(vel, flowDir, forceEffect, mouseForce,
                                           Vec(Zero, RNeg(u.globalGravity)), brownian, u) :
                                 flowDir \in { FlowDir(pos, u) },
                                 forceEffect \in { VAdd(VScale(GetForceFieldEffect(u.forceFields,
                                                            u.forceFieldCount, pos, u.time),
                                                               u.forceFieldStrength),
                                                        interaction) },
                                 mouseForce \in { MouseForce(pos, u.mouse, u.speed) },
                                 brownian \in { Brownian(pos, texCoord, u) } }) } })

\* fract()
Fract(a) == RSub(a, I(Floor(a)))

\* The sample the interaction loops take in round k (0..15): a point of a
\* spiral around texCoord, wrapped into the texture.
SampleCoord(texCoord, k, u_time) ==
    Only({ Vec(Fract(RAdd(texCoord.x, offset.x)), Fract(RAdd(texCoord.y, offset.y))) :
           offset \in { VScale(CosSin(Rat(2399 * k + 10 * u_time, 1000)), Rat(k + 1, 20)) } })

\* texture(u_particles, coord) under NEAREST filtering: the texel (1-based)
\* of a size x size texture that holds coord.
TexelAt(coord, size) ==
    Floor(RMul(coord.y, I(size))) * size + Floor(RMul(coord.x, I(size))) + 1

\* getCharge(texCoord)
GetCharge(texCoord, u) ==
    IF RLt(Fract(RMul(RAdd(RMul(texCoord.x, I(u.textureSize)),
                           RMul(texCoord.y, I(u.textureSize * u.textureSize))),
                      Rat(7919, 10000))),
           u.chargeRatio)
    THEN 1 ELSE -1

\* What one sampled particle adds to totalForce: along diff, with magnitude
\* 50 / (dist^2 + 10) times sign, when dist is within (5, interactionRadius).
PairForce(diff, interactionRadius, sign) ==
    Only({ IF RLt(I(5), dist) /\ RLt(dist, interactionRadius)
           THEN VScale(Normalize(diff, dist),
                       RMul(RDiv(I(50), RAdd(RMul(dist, dist), I(10))), I(sign)))
           ELSE VZero :
           dist \in { Length(diff.x, diff.y) } })

\* getChargeInteraction(pos, texCoord); tex is u_particles.
GetChargeInteraction(tex, pos, texCoord, u) ==
    IF RLt(u.chargeInteraction, Rat(1, 1000)) THEN VZero
    ELSE Only({ VScale(SumRounds(rounds, 1, 16), u.chargeInteraction) :
                rounds \in { << >> \o [k \in 1..16 |->
                    Only({ PairForce(VSub(pos, Vec(tex[TexelAt(sampleCoord, u.textureSize)].x,
                                                   tex[TexelAt(sampleCoord, u.textureSize)].y)),
                                     I(100),
                                     GetCharge(texCoord, u) * GetCharge(sampleCoord, u)) :
                           sampleCoord \in { SampleCoord(texCoord, k - 1, u.time) } })] } })

\* getGravityInteraction(pos, texCoord); tex is u_particles.
GetGravityInteraction(tex, pos, texCoord, u) ==
    IF RLt(RAbs(u.gravityInteraction), Rat(1, 1000)) THEN VZero
    ELSE Only({ VScale(SumRounds(rounds, 1, 16), u.gravityInteraction) :
                rounds \in { << >> \o [k \in 1..16 |->
                    Only({ PairForce(VSub(Vec(tex[TexelAt(sampleCoord, u.textureSize)].x,
                                              tex[TexelAt(sampleCoord, u.textureSize)].y), pos),
                                     I(120), 1) :
                           sampleCoord \in { SampleCoord(texCoord, k - 1, u.time) } })] } })

\* main() of the physics fragment shader for the fragment at texel i: the
\* texel it outputs.  tex is u_particles, u holds the uniforms update()
\* uploads.  The swirl and zones terms are at their defaults (off).
PhysicsMain(tex, i, u) ==
    Only({ Only({ MainAt(pos, Vec(tex[i].vx, tex[i].vy), texCoord, interaction, u) :
                  interaction \in { VAdd(GetChargeInteraction(tex, pos, texCoord, u),
                                         GetGravityInteraction(tex, pos, texCoord, u)) } }) :
           pos \in { Vec(tex[i].x, tex[i].y) },
           texCoord \in { TexCoord(i, u.textureSize) } })

---------------------------------------------------------------------------
(* FlowFieldsGL: the frame.                                                *)

\* The uniforms update() uploads to the physics program.
PhysicsUniforms(self, cv) ==
    [ time               |-> self.config.time,
      resolution         |-> cv,
      noiseScale         |-> self.config.noiseScale,
      speed              |-> self.config.speed,
      noiseMode          |-> self.config.noiseMode,
      backgroundStrength |-> self.config.backgroundStrength,
      forceFieldStrength |-> self.config.forceFieldStrength,
      brownianMotion     |-> self.config.brownianMotion,
      globalGravity      |-> self.config.globalGravity,
      mouse              |-> self.mouse,
      respawnRate        |-> self.config.respawnRate,
      friction           |-> self.config.friction,
      chargeInteraction  |-> self.config.chargeInteraction,
      chargeRatio        |-> self.config.chargeRatio,
      gravityInteraction |-> self.config.gravityInteraction,
      textureSize        |-> self.textureSize,
      forceFields        |-> GetForceFieldUniforms(self),
      forceFieldCount    |-> Len(self.forceFields) ]

\* The texture index update() reads: readTex.
ReadIndex(self) == self.currentTexture

\* A variant of the write index that binds the framebuffer of the texture
\* being read.
WriteIndexSame(self) == self.currentTexture

\* The texture whose framebuffer update() binds for writing: writeTex, writeFB.
WriteIndex(self) == 1 - self.currentTexture

\* The rest of update() once updateForceFields has run on s1: the physics
\* pass over every texel of the write texture, then the flip and the tick.
\* Looking up a uniform of a null program raises a TypeError: then
\* [thrown |-> TRUE] with the instance as updateForceFields left it.
PhysicsPass(s1, cv) ==
    IF s1.programs["physics"] = NULL
    THEN [thrown |-> TRUE, self |-> s1, pass |-> [read |-> ReadIndex(s1), write |-> -1]]
    ELSE [ thrown |-> FALSE,
           self   |-> [s1 EXCEPT
                !.particleTextures[WriteIndex(s1)] =
                    Only({ [i \in 1..(s1.textureSize * s1.textureSize) |->
                               PhysicsMain(s1.particleTextures[ReadIndex(s1)], i, u)] :
                           u \in { PhysicsUniforms(s1, cv) } }),
                !.currentTexture = 1 - s1.currentTexture,
                !.config.time = s1.config.time + 1],
           pass   |-> [read |-> ReadIndex(s1), write |-> WriteIndex(s1)] ]

\* update()
Update(self, cv, r) ==
    Only({ PhysicsPass(s1, cv) : s1 \in { UpdateForceFields(self, cv, r) } })

\* render(): fade pass, particle pass, copy pass.  It raises a TypeError
\* on the first null program it uses.
RenderThrows(self) ==
    \/ self.programs["trail"] = NULL
    \/ self.programs["render"] = NULL
    \/ self.programs["copy"] = NULL

\* Storing the colour value v (in units of 1/255) in an 8-bit channel: GL
\* ES 3.0 allows either of the two nearest integers, nearest preferred;
\* convert says which one this GL takes.
ConvertUnorm8(v, convert) ==
    IF RLt(I(255), v) THEN 255
    ELSE IF convert = "nearest" THEN Floor(RAdd(v, Half))
    ELSE Floor(v)

\* render(), fade pass: black drawn with alpha u_fade under
\* blendFunc(SRC_ALPHA, ONE_MINUS_SRC_ALPHA) leaves dst * (1 - u_fade).
FadePass(self) ==
    ConvertUnorm8(RMul(I(self.trail.pixel), RSub(One, self.config.fadeAmount)),
                  self.gl.convert)

\* Whether the round point drawn for the particle of texel t puts a
\* fragment on TrailPixel: the pixel's centre lies in the point's square
\* of side particleSize, and within particleSize / 2 of the particle's
\* position (fragments further out are discarded).
CoversTrailPixel(t, particleSize) ==
    \E dx \in { RSub(RAdd(I(TrailPixel.x), Half), t.x) } :
    \E dy \in { RSub(RAdd(I(TrailPixel.y), Half), t.y) } :
        /\ RLe(RMul(I(2), RAbs(dx)), particleSize)
        /\ RLe(RMul(I(2), RAbs(dy)), particleSize)
        /\ RLe(RMul(I(4), RAdd(RMul(dx, dx), RMul(dy, dy))), RMul(particleSize, particleSize))

\* What one point adds to the channel under blendFunc(SRC_ALPHA, ONE):
\* colour * alpha.  The palette colour and the soft edge are not computed;
\* a full channel at the configured opacity stands in for them.
PointValue(self) == ConvertUnorm8(RMul(I(255), self.config.particleOpacity), self.gl.convert)

\* The render vertex shader's texture(u_particles, a_texCoord) for vertex i.
ParticleOfVertex(self, i) ==
    self.particleTextures[self.currentTexture][TexelAt(self.particleBuffer[i], self.textureSize)]

\* render(), particle pass: drawArrays(POINTS, 0, particleCount) draws the
\* particles of the current texture, additively, into the trail texture.
ParticlePass(self, faded) ==
    Only({ IF faded + n * PointValue(self) > 255 THEN 255 ELSE faded + n * PointValue(self) :
           n \in { Cardinality({ i \in 1..self.config.particleCount :
                      CoversTrailPixel(ParticleOfVertex(self, i),
                                       self.config.particleSize) }) } })

\* render() where it does not throw: the trail texture it leaves.  (The
\* copy pass shows the trail texture on the canvas and changes nothing.)
Render(self) ==
    [self EXCEPT !.trail.pixel = Only({ ParticlePass(self, faded) : faded \in { FadePass(self) } })]

\* animate() after its update step: render, then ask for the next frame.
\* requested says whether the next frame was asked for.
RenderAndRequest(upd) ==
    IF upd.thrown \/ RenderThrows(upd.self)
    THEN [thrown |-> TRUE, self |-> upd.self, pass |-> upd.pass, requested |-> FALSE]
    ELSE [ thrown |-> FALSE, self |-> [Render(upd.self) EXCEPT !.animationId = "request"],
           pass |-> upd.pass, requested |-> TRUE ]

\* A variant of animate()'s first statement that updates while paused too.
UpdateAlways(self, cv, r, lastPass) == Update(self, cv, r)

\* if (!this.paused) this.update();
UpdateUnlessPaused(self, cv, r, lastPass) ==
    IF self.paused
    THEN [thrown |-> FALSE, self |-> self, pass |-> lastPass]
    ELSE Update(self, cv, r)

\* animate()
Animate(self, cv, r, lastPass) ==
    Only({ RenderAndRequest(upd) : upd \in { UpdateUnlessPaused(self, cv, r, lastPass) } })

---------------------------------------------------------------------------
(* The WebGL page: actions.                                                *)

\* No physics pass has run yet.
NoPass == [read |-> -1, write |-> -1]

\* initWebGL() once the constructor has answered: on a throw report false;
\* else assign the instance, run its first animate(), report.
InitWith(made, r) ==
    IF made.thrown
    THEN /\ initResult' = "false"
         /\ UNCHANGED <<flowFieldsGL, glRaf, physicsPass>>
    ELSE \E upd \in { UpdateUnlessPaused(made.instance, glCanvas, r, NoPass) } :
         \E a \in { RenderAndRequest(upd) } :
           /\ flowFieldsGL' = a.self
           /\ physicsPass' = a.pass
           /\ glRaf' = IF a.requested THEN glRaf + 1 ELSE glRaf
           /\ initResult' = IF a.thrown THEN "false" ELSE "true"

\* initWebGL(): construct, start the loop, report.
InitWebGL(env, r) ==
    /\ initResult = "none"
    /\ \E made \in { NewFlowFieldsGL([particleCount |-> env.particleCount], env) } :
          InitWith(made, r)
    /\ UNCHANGED <<glCanvas, cpuVars, pageVars>>

FrameWith(a) ==
    /\ flowFieldsGL' = a.self
    /\ physicsPass' = a.pass
    /\ glRaf' = IF a.requested THEN glRaf ELSE glRaf - 1

\* The animation-frame callback: () => this.animate().
Frame(r) ==
    /\ flowFieldsGL # Undefined
    /\ glRaf > 0
    /\ \E upd \in { UpdateUnlessPaused(flowFieldsGL, glCanvas, r, physicsPass) } :
         \E a \in { RenderAndRequest(upd) } : FrameWith(a)
    /\ UNCHANGED <<glCanvas, initResult, cpuVars, pageVars>>

\* canvas 'click' listener.
Click(clientX, clientY, r) ==
    /\ flowFieldsGL # Undefined
    /\ flowFieldsGL' = AddForceField(flowFieldsGL, clientX, RSub(glCanvas.height, clientY), -1, r)
    /\ UNCHANGED <<glCanvas, glRaf, initResult, physicsPass, cpuVars, pageVars>>

\* canvas 'touchstart' listener.
TouchStart(clientX, clientY) ==
    /\ flowFieldsGL # Undefined
    /\ flowFieldsGL' = [flowFieldsGL EXCEPT
            !.mouse.x = clientX,
            !.mouse.y = RSub(glCanvas.height, clientY),
            !.touchStart = Vec(clientX, clientY)]
    /\ UNCHANGED <<glCanvas, glRaf, initResult, physicsPass, cpuVars, pageVars>>

\* canvas 'touchend' listener: a tap spawns a field; the pointer goes away.
TouchEnd(clientX, clientY, r) ==
    /\ flowFieldsGL # Undefined
    /\ flowFieldsGL' =
          [ (IF /\ RLt(RAbs(RSub(clientX, flowFieldsGL.touchStart.x)), I(10))
                /\ RLt(RAbs(RSub(clientY, flowFieldsGL.touchStart.y)), I(10))
             THEN AddForceField(flowFieldsGL, clientX, RSub(glCanvas.height, clientY), -1, r)
             ELSE flowFieldsGL)
            EXCEPT !.mouse.x = I(-1000), !.mouse.y = I(-1000) ]
    /\ UNCHANGED <<glCanvas, glRaf, initResult, physicsPass, cpuVars, pageVars>>

\* The page's pause control writes the instance's paused flag.
SetPaused(b) ==
    /\ flowFieldsGL # Undefined
    /\ flowFieldsGL.paused # b
    /\ flowFieldsGL' = [flowFieldsGL EXCEPT !.paused = b]
    /\ UNCHANGED <<glCanvas, glRaf, initResult, physicsPass, cpuVars, pageVars>>

\* setConfig(key, value); a call that changes nothing is left out.
SetConfig(key, value) ==
    /\ flowFieldsGL # Undefined
    /\ flowFieldsGL.config[key] # value
    /\ flowFieldsGL' = [flowFieldsGL EXCEPT !.config[key] = value]
    /\ UNCHANGED <<glCanvas, glRaf, initResult, physicsPass, cpuVars, pageVars>>

\* A variant of resize() that rescales the particles to the new size.
ResizeRenormalizing(innerWidth, innerHeight) ==
    /\ flowFieldsGL # Undefined
    /\ glCanvas' = [width |-> innerWidth, height |-> innerHeight]
    /\ flowFieldsGL' =
          [flowFieldsGL EXCEPT
             !.trail = CreateTrailTexture(glCanvas'),
             !.particleTextures =
                 [t \in 0..1 |->
                    [i \in 1..(flowFieldsGL.textureSize * flowFieldsGL.textureSize) |->
                       [flowFieldsGL.particleTextures[t][i] EXCEPT
                          !.x = RDiv(RMul(@, innerWidth), glCanvas.width),
                          !.y = RDiv(RMul(@, innerHeight), glCanvas.height)]]]]
    /\ UNCHANGED <<glRaf, initResult, physicsPass, cpuVars, pageVars>>

\* window 'resize' listener: flowFieldsGL.resize() takes the window's size,
\* gives the trail texture that size and clears it.
Resize(innerWidth, innerHeight) ==
    /\ flowFieldsGL # Undefined
    /\ glCanvas' = [width |-> innerWidth, height |-> innerHeight]
    /\ flowFieldsGL' = [flowFieldsGL EXCEPT !.trail = CreateTrailTexture(glCanvas')]
    /\ UNCHANGED <<glRaf, initResult, physicsPass, cpuVars, pageVars>>

---------------------------------------------------------------------------
(* flow.js: state after the script has run (init(); animate()).            *)

CpuDefaultConfig ==
    [ noiseMode          |-> 1,
      backgroundStrength |-> One,
      forceFieldStrength |-> One,
      spawnRate          |-> Rat(8, 1000),
      fieldDriftSpeed    |-> Half,
      particleCount      |-> 0,
      noiseScale         |-> Rat(3, 1000),
      speed              |-> I(2),
      brownianMotion     |-> One,
      globalGravity      |-> Zero,
      particleInteraction |-> "zones",
      interactionStrength |-> One,
      interactionRadius  |-> I(50),
      respawnRate        |-> Rat(5, 1000),
      mouseMode          |-> "vortex" ]

\* let mouse
InitialMouse == [x |-> NullValue, y |-> NullValue, radius |-> I(150), active |-> FALSE]

---------------------------------------------------------------------------
(* flow.js: NoiseGenerator.  The constructor's `n` is kept as its integer  *)
(* part w and its fraction f; seeds are not negative and below 2^31 - 1.   *)

LcgMultiplier == 16807
LcgModulus    == 2147483647

\* (w * 16807) % 2147483647 for an integer w in [0, 2147483647).  The
\* code's doubles hold the product exactly; here it is split as
\* 2147483647 = 16807 * 127773 + 2836 so that no intermediate value needs
\* more than 31 bits.  The value is the same.
MulMod(w) ==
    Only({ IF t < 0 THEN t + LcgModulus ELSE t :
           t \in { LcgMultiplier * (w % (LcgModulus \div LcgMultiplier))
                   - (LcgModulus % LcgMultiplier) * (w \div (LcgModulus \div LcgMultiplier)) } })

\* (a + e) % 2147483647 for a, e in [0, 2147483647)
AddMod(a, e) == IF a >= LcgModulus - e THEN a - (LcgModulus - e) ELSE a + e

\* n = (n * 16807) % 2147483647.  The JavaScript % keeps the fraction.
LcgNext(n) ==
    Only({ [w |-> AddMod(MulMod(n.w), Floor(g)), f |-> Fract(g)] :
           g \in { RMul(n.f, I(LcgMultiplier)) } })

\* const j = n % (i + 1); [p[i], p[j]] = [p[j], p[i]] on the Uint8Array p
\* (held 1-based).  When j is not an integer, p[j] is no element of the
\* typed array: reading it gives undefined, which p[i] stores as 0, and
\* writing it stores nothing.
Swap(p, i, n) ==
    IF n.f.n = 0
    THEN Only({ [p EXCEPT ![i + 1] = p[j + 1], ![j + 1] = p[i + 1]] : j \in { n.w % (i + 1) } })
    ELSE [p EXCEPT ![i + 1] = 0]

\* One round of the shuffle loop on s = [p, n].
ShuffleRound(s, i) ==
    Only({ [p |-> Swap(s.p, i, n), n |-> n] : n \in { LcgNext(s.n) } })

\* The rounds i = hi, hi - 1, ..., lo of the shuffle loop, in that order.
RECURSIVE ShuffleRounds(_, _, _)
ShuffleRounds(s, hi, lo) ==
    IF hi = lo THEN ShuffleRound(s, hi)
    ELSE Only({ Only({ ShuffleRounds(upper, mid, lo) :
                       upper \in { ShuffleRounds(s, hi, mid + 1) } }) :
                mid \in { (hi + lo) \div 2 } })

\* new NoiseGenerator(seed): seed and perm (gradP is perm through a fixed
\* table and is left out).
NoiseGenerator(seed) ==
    Only({ [ seed |-> seed,
             perm |-> << >> \o [k \in 1..512 |-> s.p[((k - 1) % 256) + 1]] ] :
           s \in { ShuffleRounds([p |-> [k \in 1..256 |-> k - 1],
                                   n |-> [w |-> Floor(seed), f |-> Fract(seed)]],
                                  255, 1) } })

\* The pages that are not loaded.
OtherPagesNotLoaded ==
    /\ boidsPage = Undefined
    /\ rainbowLife = Undefined
    /\ pointerLeft = FALSE

InitCPU ==
    /\ forceFields = << >>
    /\ config = CpuDefaultConfig
    /\ time = 0
    /\ paused = FALSE
    /\ animationId = "request"
    /\ spawnTypeOnClick = "random"
    /\ particles = << >>
    /\ canvas = [width |-> I(800), height |-> I(600)]
    /\ cpuMouse = InitialMouse
    /\ noise = NoiseGenerator(I(5000))
    /\ OtherPagesNotLoaded

---------------------------------------------------------------------------
(* flow.js: ForceField.                                                    *)

CpuAllTypes ==
    << "sink", "source", "vortex", "vortex", "gravity", "shear", "repulsor",
       "turbulence", "lane" >>

\* Math.PI * 2
TwoPi == Rat(628318, 100000)

\* new ForceField(type); type is NULL for the default argument.  r holds the
\* Math.random() draws in the order the constructor takes them.
NewForceField(type, r, cv, cfg) ==
    Only({ [ x         |-> RMul(r.x, cv.width),
             y         |-> RMul(r.y, cv.height),
             vx        |-> RMul(RMul(RSub(r.vx, Half), cfg.fieldDriftSpeed), speedMultiplier),
             vy        |-> RMul(RMul(RSub(r.vy, Half), cfg.fieldDriftSpeed), speedMultiplier),
             type      |-> finalType,
             strength  |-> RAdd(I(50), RMul(r.strength, I(100))),
             radius    |-> RAdd(I(80), RMul(r.radius, I(120))),
             rotation  |-> IF finalType = "vortex"
                           THEN (IF RLt(Half, r.rotation) THEN 1 ELSE -1)
                           ELSE 0,
             life      |-> RAdd(I(500), RMul(r.life, I(1000))),
             maxLife   |-> RAdd(I(500), RMul(r.life, I(1000))),
             pulsePhase     |-> RMul(r.pulsePhase, TwoPi),
             shearAngle     |-> RMul(r.shearAngle, TwoPi),
             laneAngle      |-> RMul(r.laneAngle, TwoPi),
             turbulenceSeed |-> RMul(r.turbulenceSeed, I(1000)) ] :
           speedMultiplier \in { RAdd(Half, RMul(r.speed, Rat(3, 2))) },
           finalType \in { IF type # NULL THEN type
                           ELSE CpuAllTypes[Floor(RMul(r.pick, I(Len(CpuAllTypes)))) + 1] } })

\* The drift, bounce and clamp of update() along one axis: [pos, vel].
DriftAxis(pos, vel, extent) ==
    [ pos |-> RMax(Zero, RMin(extent, RAdd(pos, vel))),
      vel |-> IF RLt(RAdd(pos, vel), Zero) \/ RLt(extent, RAdd(pos, vel))
              THEN RNeg(vel) ELSE vel ]

\* ForceField.update()
ForceFieldUpdate(f, cv) ==
    Only({ [f EXCEPT !.x = ax.pos, !.vx = ax.vel,
                     !.y = ay.pos, !.vy = ay.vel,
                     !.life = RSub(f.life, One),
                     !.pulsePhase = RAdd(f.pulsePhase, Rat(5, 100))] :
           ax \in { DriftAxis(f.x, f.vx, cv.width) },
           ay \in { DriftAxis(f.y, f.vy, cv.height) } })

\* ForceField.isDead()
IsDead(f) == RLe(f.life, Zero)

\* Math.sin and noise.noise2D cannot be computed in exact arithmetic; the
\* stand-ins of the shader model are used for them.
Sin(a) == CosSin(a).y
Noise2D(x, y) == Snoise(Vec(x, y))

\* getForce: const pulse = 1 + Math.sin(this.pulsePhase) * 0.3
Pulse(f) == RAdd(One, RMul(Sin(f.pulsePhase), Rat(3, 10)))

\* A variant of the fade that leaves a new field at full strength.
LifeFactorNoFadeIn(f) ==
    IF RLt(f.life, I(100)) THEN RDiv(f.life, I(100)) ELSE One

\* getForce: the fade in/out.  The second test is made after the first
\* and overrides it.
LifeFactor(f) ==
    IF RLt(RSub(f.maxLife, I(100)), f.life)
    THEN RDiv(RSub(f.maxLife, f.life), I(100))
    ELSE IF RLt(f.life, I(100)) THEN RDiv(f.life, I(100))
    ELSE One

\* getForce: finalStrength = (strength / 100) * falloff * pulse * lifeFactor
FinalStrength(f, dist) ==
    RMul(RMul(RMul(RDiv(f.strength, I(100)), RSub(One, RDiv(dist, f.radius))),
              Pulse(f)),
         LifeFactor(f))

Force(fx, fy) == [fx |-> fx, fy |-> fy]

\* Math.sign(dy) || 1
ShearDir(dy) == IF dy.n < 0 THEN I(-1) ELSE One

\* A variant of the sink branch that pushes instead of pulling.
SinkForcePush(dx, dy, dist, finalStrength) ==
    Force(RMul(RDiv(dx, dist), finalStrength), RMul(RDiv(dy, dist), finalStrength))

\* getForce, case 'sink'
SinkForce(dx, dy, dist, finalStrength) ==
    Force(RMul(RNeg(RDiv(dx, dist)), finalStrength),
          RMul(RNeg(RDiv(dy, dist)), finalStrength))

\* getForce, case 'gravity': an inward pull of twice the strength plus a
\* tangential push of 0.3 of that.
GravityForce(dx, dy, dist, gravityStrength) ==
    Force(RAdd(RMul(RNeg(RDiv(dx, dist)), gravityStrength),
               RMul(RMul(RDiv(RNeg(dy), dist), gravityStrength), Rat(3, 10))),
          RAdd(RMul(RNeg(RDiv(dy, dist)), gravityStrength),
               RMul(RMul(RDiv(dx, dist), gravityStrength), Rat(3, 10))))

\* getForce: the switch over this.type.
SwitchType(f, dx, dy, dist, finalStrength, px, py, t) ==
    CASE f.type = "sink"   -> SinkForce(dx, dy, dist, finalStrength)
      [] f.type = "source" ->
           Force(RMul(RDiv(dx, dist), finalStrength), RMul(RDiv(dy, dist), finalStrength))
      [] f.type = "vortex" ->
           Force(RMul(RMul(RDiv(RNeg(dy), dist), finalStrength), I(f.rotation)),
                 RMul(RMul(RDiv(dx, dist), finalStrength), I(f.rotation)))
      [] f.type = "gravity" -> GravityForce(dx, dy, dist, RMul(finalStrength, I(2)))
      [] f.type = "shear" ->
           Force(RMul(RMul(RMul(CosSin(f.shearAngle).x, finalStrength), ShearDir(dy)), Rat(3, 2)),
                 RMul(RMul(RMul(CosSin(f.shearAngle).y, finalStrength), ShearDir(dy)), Rat(3, 2)))
      [] f.type = "repulsor" ->
           Only({ Force(RMul(RDiv(dx, dist), repelStrength), RMul(RDiv(dy, dist), repelStrength)) :
                  repelStrength \in { RMul(RMul(finalStrength, I(3)),
                                           RDiv(f.radius, RAdd(dist, I(10)))) } })
      [] f.type = "turbulence" ->
           Only({ Force(RMul(CosSin(turbAngle).x, RMul(finalStrength, I(2))),
                        RMul(CosSin(turbAngle).y, RMul(finalStrength, I(2)))) :
                  turbAngle \in { RMul(Noise2D(RAdd(RMul(px, Rat(1, 10)), f.turbulenceSeed),
                                               RAdd(RMul(py, Rat(1, 10)), Rat(t, 100))),
                                       TwoPi) } })
      [] f.type = "lane" ->
           Force(RMul(RMul(CosSin(f.laneAngle).x, finalStrength), I(2)),
                 RMul(RMul(CosSin(f.laneAngle).y, finalStrength), I(2)))
      [] OTHER -> Force(Zero, Zero)

\* getForce once dx, dy and dist are known.
GetForceAt(f, dx, dy, dist, px, py, t) ==
    IF RLt(f.radius, dist) \/ RLt(dist, I(5))
    THEN Force(Zero, Zero)
    ELSE Only({ SwitchType(f, dx, dy, dist, finalStrength, px, py, t) :
                finalStrength \in { FinalStrength(f, dist) } })

\* ForceField.getForce(px, py); t is the script's `time`, which the
\* turbulence branch reads.
GetForce(f, px, py, t) ==
    Only({ Only({ GetForceAt(f, dx, dy, dist, px, py, t) : dist \in { Length(dx, dy) } }) :
           dx \in { RSub(px, f.x) }, dy \in { RSub(py, f.y) } })

---------------------------------------------------------------------------
(* flow.js: the force field set and the frame.                             *)

\* A variant of spawnForceField without the capacity test.
SpawnForceFieldUnchecked(fields, type, r, cv, cfg) ==
    Append(fields, NewForceField(type, r, cv, cfg))

\* spawnForceField(type)
SpawnForceField(fields, type, r, cv, cfg) ==
    IF Len(fields) < 15
    THEN Append(fields, NewForceField(type, r, cv, cfg))
    ELSE fields

\* animate(): the random spawn.  r.auto is the draw compared with the rate.
EffectiveSpawnRate(cfg) ==
    IF cfg.noiseMode = 5 THEN RMul(cfg.spawnRate, I(3)) ELSE cfg.spawnRate
AutoSpawn(fields, r, cv, cfg) ==
    IF RLt(r.auto, EffectiveSpawnRate(cfg)) /\ Len(fields) < 15
    THEN SpawnForceField(fields, NULL, r.add, cv, cfg)
    ELSE fields

\* animate(): forceFields.filter(f => !f.isDead()), then update() on each.
FilterAndUpdate(fields, cv) ==
    Only({ [i \in 1..Len(alive) |-> ForceFieldUpdate(alive[i], cv)] :
           alive \in { SelectSeq(fields, LAMBDA f : ~IsDead(f)) } })

---------------------------------------------------------------------------
(* flow.js: Particle and the spatial grid.  velocity, colorIndex and hue   *)
(* feed only draw() and are left out.                                      *)

GRID_CELL_SIZE == 40

FourPi == Rat(1256637, 100000)

\* The Math.random() draws one particle takes in a frame: the brownian
\* jitter, and those of reset().
ParticleStepDraws ==
    [ bx |-> Half, by |-> Half, x |-> Half, y |-> Half, speed |-> Half, maxLife |-> Half,
      pick |-> Zero ]

\* Particle.reset()
ParticleReset(r, cv, cfg) ==
    [ x |-> RMul(r.x, cv.width), y |-> RMul(r.y, cv.height),
      prevX |-> RMul(r.x, cv.width), prevY |-> RMul(r.y, cv.height),
      speed |-> RMul(cfg.speed, RAdd(Half, RMul(r.speed, Half))),
      life |-> 0,
      maxLife |-> RAdd(I(100), RMul(r.maxLife, I(200))) ]

\* init(): particleCount new particles.
InitParticles(r, cv, cfg) ==
    << >> \o [i \in 1..cfg.particleCount |-> ParticleReset(r, cv, cfg)]

\* getSpatialKey(x, y): the cell, as <<gx, gy>>.
GetSpatialKey(x, y) ==
    << Floor(RDiv(x, I(GRID_CELL_SIZE))), Floor(RDiv(y, I(GRID_CELL_SIZE))) >>

\* buildSpatialGrid(): the cell each particle object is filed under.  The
\* grid holds the particle objects themselves, not copies of them.
BuildSpatialGrid(ps) ==
    [i \in 1..Len(ps) |-> GetSpatialKey(ps[i].x, ps[i].y)]

\* Math.ceil
Ceil(a) == -Floor(RNeg(a))

\* getNearbyParticles with cellRadius rounded down instead of up.
GetNearbyParticlesFloor(grid, x, y, radius) ==
    Only({ SelectSeq([j \in 1..Len(grid) |-> j],
                     LAMBDA j : /\ Abs(grid[j][1] - key[1]) <= cellRadius
                                /\ Abs(grid[j][2] - key[2]) <= cellRadius) :
           cellRadius \in { Floor(RDiv(radius, I(GRID_CELL_SIZE))) },
           key \in { GetSpatialKey(x, y) } })

\* getNearbyParticles(x, y, radius): the particles filed under the cells
\* around (x, y), by index.
GetNearbyParticles(grid, x, y, radius) ==
    Only({ SelectSeq([j \in 1..Len(grid) |-> j],
                     LAMBDA j : /\ Abs(grid[j][1] - key[1]) <= cellRadius
                                /\ Abs(grid[j][2] - key[2]) <= cellRadius) :
           cellRadius \in { Ceil(RDiv(radius, I(GRID_CELL_SIZE))) },
           key \in { GetSpatialKey(x, y) } })

\* noiseVal of update(), by config.noiseMode.
NoiseVal(mode, nx, ny) ==
    CASE mode = 0 -> Noise2D(nx, ny)
      [] mode = 1 ->
           RAdd(RAdd(RMul(Noise2D(nx, ny), Half),
                     RMul(Noise2D(RMul(nx, I(2)), RMul(ny, I(2))), Rat(1, 4))),
                RAdd(RMul(Noise2D(RMul(nx, I(4)), RMul(ny, I(4))), Rat(1, 8)),
                     RMul(Noise2D(RMul(nx, I(8)), RMul(ny, I(8))), Rat(1, 16))))
      [] mode = 2 ->
           Only({ RSub(RMul(RAdd(RAdd(RMul(a, a),
                                      RMul(RSub(One, RAbs(Noise2D(RMul(nx, I(2)), RMul(ny, I(2))))), Half)),
                                 RMul(RSub(One, RAbs(Noise2D(RMul(nx, I(4)), RMul(ny, I(4))))), Rat(1, 4))),
                            Rat(7, 10)),
                       Half) :
                  a \in { RSub(One, RAbs(Noise2D(nx, ny))) } })
      [] mode = 3 ->
           RSub(RMul(RAdd(RAdd(RMul(RAbs(Noise2D(nx, ny)), Half),
                               RMul(RAbs(Noise2D(RMul(nx, I(2)), RMul(ny, I(2)))), Rat(1, 4))),
                          RMul(RAbs(Noise2D(RMul(nx, I(4)), RMul(ny, I(4)))), Rat(1, 8))),
                     I(2)),
                Half)
      [] mode = 4 ->
           Only({ RAdd(Noise2D(wx, wy),
                       RMul(Noise2D(RMul(wx, I(2)), RMul(wy, I(2))), Half)) :
                  wx \in { RAdd(nx, RMul(Noise2D(nx, ny), Half)) },
                  wy \in { RAdd(ny, RMul(Noise2D(RAdd(nx, Rat(52, 10)), RAdd(ny, Rat(13, 10))), Half)) } })
      [] OTHER -> Zero

\* update(): the move the background field gives (none in mode 5).
BackgroundMove(p, cfg, t) ==
    IF cfg.noiseMode = 5 THEN VZero
    ELSE VScale(CosSin(RMul(NoiseVal(cfg.noiseMode,
                                     RAdd(RMul(p.x, cfg.noiseScale), Rat(t, 10000)),
                                     RAdd(RMul(p.y, cfg.noiseScale), Rat(t, 10000))),
                            FourPi)),
                RMul(p.speed, cfg.backgroundStrength))

\* update(): the brownian jitter.
BrownianMove(r, cfg) ==
    IF RLt(Zero, cfg.brownianMotion)
    THEN Vec(RMul(RSub(r.bx, Half), cfg.brownianMotion), RMul(RSub(r.by, Half), cfg.brownianMotion))
    ELSE VZero

\* update(): the sum of field.getForce(this.x, this.y) * forceFieldStrength.
FieldsMove(p, fields, cfg, t) ==
    IF Len(fields) = 0 THEN VZero
    ELSE SumRounds([k \in 1..Len(fields) |->
                      Only({ Vec(RMul(f.fx, cfg.forceFieldStrength), RMul(f.fy, cfg.forceFieldStrength)) :
                             f \in { GetForce(fields[k], p.x, p.y, t) } })],
                   1, Len(fields))

\* update(): activeMode; in 'zones' mode the noise at the particle decides.
ActiveMode(p, cfg, t) ==
    IF cfg.particleInteraction # "zones" THEN cfg.particleInteraction
    ELSE Only({ IF RLt(zoneNoise, Rat(-3, 10)) THEN "attract"
                ELSE IF RLt(Rat(3, 10), zoneNoise) THEN "repel"
                ELSE "align" :
                zoneNoise \in { Noise2D(RAdd(RMul(p.x, Rat(5, 1000)), Rat(2 * t, 10000)),
                                        RMul(p.y, Rat(5, 1000))) } })

\* update(): the neighbours of particle i among nearby: another particle,
\* at a distance in (0, interactionRadius).  ps holds the particles as
\* they are when i is updated.
IsNeighbour(ps, i, j, cfg) ==
    /\ j # i
    /\ \E dist \in { Length(RSub(ps[j].x, ps[i].x), RSub(ps[j].y, ps[i].y)) } :
          RLt(Zero, dist) /\ RLt(dist, cfg.interactionRadius)

\* update(): what neighbour j adds to interactX/Y (attract, repel) or to
\* alignX/Y (align).
NeighbourTerm(ps, i, j, mode, cfg) ==
    Only({ Only({ CASE mode = "attract" ->
                         Vec(RMul(RDiv(dx, dist), force), RMul(RDiv(dy, dist), force))
                    [] mode = "repel" ->
                         Vec(RNeg(RMul(RMul(RDiv(dx, dist), force), I(2))),
                             RNeg(RMul(RMul(RDiv(dy, dist), force), I(2))))
                    [] OTHER ->
                         Vec(RSub(ps[j].x, ps[j].prevX), RSub(ps[j].y, ps[j].prevY)) :
                  force \in { RDiv(RSub(cfg.interactionRadius, dist), cfg.interactionRadius) } }) :
           dx \in { RSub(ps[j].x, ps[i].x) },
           dy \in { RSub(ps[j].y, ps[i].y) },
           dist \in { Length(RSub(ps[j].x, ps[i].x), RSub(ps[j].y, ps[i].y)) } })

\* update(): the move after the particle interaction block.
AlignMove(move, align, p, cfg) ==
    Only({ IF RLt(Zero, alignMag)
           THEN Vec(RAdd(RMul(move.x, Rat(7, 10)),
                         RMul(RMul(RMul(RDiv(align.x, alignMag), p.speed), Rat(3, 10)),
                              cfg.interactionStrength)),
                    RAdd(RMul(move.y, Rat(7, 10)),
                         RMul(RMul(RMul(RDiv(align.y, alignMag), p.speed), Rat(3, 10)),
                              cfg.interactionStrength)))
           ELSE move :
           alignMag \in { Length(align.x, align.y) } })

InteractionMove(ps, i, grid, move, cfg, t) ==
    IF cfg.particleInteraction = "none" THEN move
    ELSE Only({ IF Len(ns) = 0 THEN move
                ELSE Only({ IF mode = "align"
                            THEN AlignMove(move, VScale(sum, Rat(1, Len(ns))), ps[i], cfg)
                            ELSE VAdd(move, VScale(sum, RMul(cfg.interactionStrength, Half))) :
                            sum \in { SumRounds([k \in 1..Len(ns) |->
                                                   NeighbourTerm(ps, i, ns[k], mode, cfg)],
                                                1, Len(ns)) } }) :
                mode \in { ActiveMode(ps[i], cfg, t) },
                ns \in { SelectSeq(GetNearbyParticles(grid, ps[i].x, ps[i].y, cfg.interactionRadius),
                                   LAMBDA j : IsNeighbour(ps, i, j, cfg)) } })

\* update(): this.x += moveX; this.y += moveY; this.life++; reset() when
\* out of bounds or too old.
MoveOrReset(p, move, r, cv, cfg) ==
    Only({ IF \/ RLt(x, Zero) \/ RLt(cv.width, x)
              \/ RLt(y, Zero) \/ RLt(cv.height, y)
              \/ RLt(p.maxLife, I(p.life + 1))
           THEN ParticleReset(r, cv, cfg)
           ELSE [p EXCEPT !.prevX = p.x, !.prevY = p.y, !.x = x, !.y = y, !.life = p.life + 1] :
           x \in { RAdd(p.x, move.x) }, y \in { RAdd(p.y, move.y) } })

\* Math.atan2 cannot be computed in exact arithmetic: an angle in (-pi, pi].
Atan2(y, x) == Rat(((y.n + 2 * x.n + y.d + x.d) % 7) - 3, 1)

\* Math.PI / 2
HalfPi == Rat(157080, 100000)

\* update(): the switch on config.mouseMode, for a particle at distance
\* dist = |(dx, dy)| from the pointer.
MouseSwitch(move, dx, dy, dist, force, cfg) ==
    CASE cfg.mouseMode = "vortex" ->
           Only({ VScale(CosSin(blendedAngle),
                         RMul(Length(move.x, move.y), RAdd(One, force))) :
                  blendedAngle \in
                     { RAdd(RMul(Atan2(move.y, move.x), RSub(One, RMul(force, Rat(8, 10)))),
                            RMul(RMul(RAdd(Atan2(dy, dx), HalfPi), force), Rat(8, 10))) } })
      [] cfg.mouseMode = "attract" ->
           Vec(RSub(move.x, RMul(RMul(RDiv(dx, dist), force), I(3))),
               RSub(move.y, RMul(RMul(RDiv(dy, dist), force), I(3))))
      [] cfg.mouseMode = "repel" ->
           Vec(RAdd(move.x, RMul(RMul(RDiv(dx, dist), force), I(3))),
               RAdd(move.y, RMul(RMul(RDiv(dy, dist), force), I(3))))
      [] OTHER -> move

\* update(): whether the mouse block acts on a particle at p: the pointer
\* is active, has a position, and p is at a distance in (5, radius).
MouseReaches(p, ms) ==
    /\ ms.active
    /\ ms.x # NullValue
    /\ \E distSq \in { RAdd(RMul(RSub(p.x, ms.x), RSub(p.x, ms.x)),
                             RMul(RSub(p.y, ms.y), RSub(p.y, ms.y))) } :
          RLt(distSq, RMul(ms.radius, ms.radius)) /\ RLt(I(25), distSq)

\* update(): the mouse block.
MouseBlock(p, move, ms, cfg) ==
    IF MouseReaches(p, ms)
    THEN Only({ MouseSwitch(move, RSub(p.x, ms.x), RSub(p.y, ms.y), dist,
                            RDiv(RSub(ms.radius, dist), ms.radius), cfg) :
                dist \in { Length(RSub(p.x, ms.x), RSub(p.y, ms.y)) } })
    ELSE move

\* Particle.update() of particle i, reading the other particles from ps and
\* the pointer from the global mouse.
ParticleUpdate(ps, i, grid, fields, r, cv, cfg, t) ==
    Only({ MoveOrReset(ps[i], MouseBlock(ps[i], move, cpuMouse, cfg), r, cv, cfg) :
           move \in { InteractionMove(ps, i, grid,
                         VAdd(VAdd(VAdd(BackgroundMove(ps[i], cfg, t), BrownianMove(r, cfg)),
                                   FieldsMove(ps[i], fields, cfg, t)),
                              Vec(Zero, cfg.globalGravity)),
                         cfg, t) } })

\* for (const particle of particles) particle.update(): particle i is
\* updated in place, and particles i+1.. read it as updated.
RECURSIVE ParticleLoop(_, _, _, _, _, _, _, _)
ParticleLoop(ps, i, grid, fields, r, cv, cfg, t) ==
    IF i > Len(ps) THEN ps
    ELSE ParticleLoop([ps EXCEPT ![i] = ParticleUpdate(ps, i, grid, fields, r, cv, cfg, t)],
                      i + 1, grid, fields, r, cv, cfg, t)

\* animate(): the respawn loops: count times, particles[floor(random *
\* length)].reset(), in forces-only mode only for a life above 50.
RECURSIVE RespawnLoop(_, _, _, _, _, _)
RespawnLoop(ps, count, onlyOld, r, cv, cfg) ==
    IF count <= 0 THEN ps
    ELSE RespawnLoop(
           Only({ IF onlyOld /\ ~(ps[idx].life > 50) THEN ps
                  ELSE [ps EXCEPT ![idx] = ParticleReset(r, cv, cfg)] :
                  idx \in { Floor(RMul(r.pick, I(Len(ps)))) + 1 } }),
           count - 1, onlyOld, r, cv, cfg)

\* animate(): the grid build, the particle loop and the respawn loops.
StepParticles(ps, fields, r, cv, cfg, t) ==
    Only({ Only({ RespawnLoop(spawned, Floor(RMul(I(cfg.particleCount), cfg.respawnRate)),
                              FALSE, r, cv, cfg) :
                  spawned \in { IF cfg.noiseMode = 5
                                THEN RespawnLoop(moved, Floor(RMul(I(cfg.particleCount), Rat(2, 1000))),
                                                 TRUE, r, cv, cfg)
                                ELSE moved } }) :
           moved \in { ParticleLoop(ps, 1, BuildSpatialGrid(ps), fields, r, cv, cfg, t) } })

---------------------------------------------------------------------------
(* flow.js: actions.                                                       *)

\* keydown '1'..'8': spawnForceField(type)
KeySpawn(type, r) ==
    /\ forceFields' = SpawnForceField(forceFields, type, r, canvas, config)
    /\ UNCHANGED <<config, time, paused, animationId, spawnTypeOnClick, particles, canvas, cpuMouse, noise, glVars, pageVars>>

\* keydown 'x': clearForceFields()
KeyClear ==
    /\ forceFields' = << >>
    /\ UNCHANGED <<config, time, paused, animationId, spawnTypeOnClick, particles, canvas, cpuMouse, noise, glVars, pageVars>>

\* keydown ' ': togglePause()
TogglePause ==
    /\ paused' = ~paused
    /\ UNCHANGED <<forceFields, config, time, animationId, spawnTypeOnClick, particles, canvas, cpuMouse, noise, glVars, pageVars>>

\* canvas 'click' listener: a field of the chosen type is made, placed at
\* the pointer, and pushed while fewer than 10 fields exist.
ClickSpawn(fields, spawnType, clientX, clientY, r, cv, cfg) ==
    Only({ IF Len(fields) < 10 THEN Append(fields, field) ELSE fields :
           field \in { [ NewForceField(IF spawnType = "random" THEN NULL ELSE spawnType,
                                       r, cv, cfg)
                         EXCEPT !.x = clientX, !.y = clientY ] } })

CanvasClick(clientX, clientY, r) ==
    /\ forceFields' = ClickSpawn(forceFields, spawnTypeOnClick, clientX, clientY, r, canvas, config)
    /\ UNCHANGED <<config, time, paused, animationId, spawnTypeOnClick, particles, canvas, cpuMouse, noise, glVars, pageVars>>

\* canvas 'contextmenu' listener: the click spawn type moves on by one.
ClickTypes == << "random", "sink", "source", "vortex", "gravity" >>
ContextMenu ==
    /\ \E i \in 1..Len(ClickTypes) :
          /\ ClickTypes[i] = spawnTypeOnClick
          /\ spawnTypeOnClick' = ClickTypes[(i % Len(ClickTypes)) + 1]
    /\ UNCHANGED <<forceFields, config, time, paused, animationId, particles, canvas, cpuMouse, noise, glVars, pageVars>>

\* keydown 'i': the particle interaction mode moves on by one.
InteractionModes == << "none", "attract", "repel", "align", "zones" >>
CycleInteraction ==
    /\ \E i \in 1..Len(InteractionModes) :
          /\ InteractionModes[i] = config.particleInteraction
          /\ config' = [config EXCEPT
                          !.particleInteraction = InteractionModes[(i % Len(InteractionModes)) + 1]]
    /\ UNCHANGED <<forceFields, time, paused, animationId, spawnTypeOnClick, particles, canvas, cpuMouse, noise, glVars, pageVars>>

\* window 'resize' listener of flow.js: resize() takes the window's size;
\* init() then rebuilds the particles and leaves forceFields alone.
CpuResize(innerWidth, innerHeight) ==
    /\ canvas' = [width |-> innerWidth, height |-> innerHeight]
    /\ particles' = InitParticles(ParticleStepDraws, canvas', config)
    /\ UNCHANGED <<forceFields, config, time, paused, animationId, spawnTypeOnClick, cpuMouse, noise, glVars, pageVars>>

\* animate(), the animation-frame callback.  While paused it only asks for
\* the next frame.
CpuAnimate(r) ==
    /\ animationId = "request"
    /\ IF paused
       THEN UNCHANGED <<forceFields, particles, time>>
       ELSE /\ \E spawned \in { AutoSpawn(forceFields, r, canvas, config) } :
                 forceFields' = << >> \o FilterAndUpdate(spawned, canvas)
            /\ particles' = StepParticles(particles, forceFields', ParticleStepDraws,
                                          canvas, config, time)
            /\ time' = time + 1
    /\ UNCHANGED <<config, paused, animationId, spawnTypeOnClick, canvas, cpuMouse, noise, glVars, pageVars>>

---------------------------------------------------------------------------
(* Spec: the WebGL page after a successful initWebGL(), under clicks,      *)
(* taps, frames, pausing and setConfig.  Every spawned field takes the     *)
(* same draws, so that the set can fill up to its capacity.                *)

MaxTime == 3

Window == [width |-> I(800), height |-> I(600)]

GoodEnv(n, texels) ==
    [ webgl2 |-> TRUE, badShaders |-> {}, badLinks |-> {}, convert |-> "nearest",
      particleCount |-> n, particles |-> texels, canvas |-> Window ]

\* The draws of one addForceField call.
SpawnDraws ==
    { [pick |-> Zero, life |-> Zero, strength |-> Half, radius |-> Half,
       rotation |-> Half, vx |-> Zero, vy |-> Half] }

\* The draws of one frame.
FrameDraws ==
    { [auto |-> a, ax |-> Half, ay |-> Half, add |-> d] : a \in {Zero, Rat(3, 4)}, d \in SpawnDraws }

\* The instance initWebGL() leaves behind when everything succeeds: built
\* from initialConfig, with its first animate() done.
Started(initialConfig, env, r) ==
    Only({ Animate(made.instance, Window, r, NoPass) : made \in { NewFlowFieldsGL(initialConfig, env) } })

Init ==
    /\ glCanvas = Window
    /\ \E r \in FrameDraws :
         \E a \in { Started([particleCount |-> 0, forceLifetime |-> Rat(1, 250),
                              forceSpawnRate |-> I(30)], GoodEnv(0, << >>), r) } :
            /\ flowFieldsGL = a.self
            /\ physicsPass = a.pass
    /\ glRaf = 1
    /\ initResult = "true"
    /\ InitCPU

TapPoint == Vec(I(400), I(300))

ConfigInputs ==
    { <<"backgroundStrength", Rat(5, 2)>> }

Next ==
    \/ \E r \in FrameDraws :
          /\ flowFieldsGL.paused \/ flowFieldsGL.config.time < MaxTime
          /\ Frame(r)
    \/ \E d \in SpawnDraws : Click(TapPoint.x, TapPoint.y, d)
    \/ TouchStart(TapPoint.x, TapPoint.y)
    \/ \E d \in SpawnDraws : TouchEnd(TapPoint.x, TapPoint.y, d)
    \/ \E b \in BOOLEAN : SetPaused(b)
    \/ \E kv \in ConfigInputs : SetConfig(kv[1], kv[2])

Spec == Init /\ [][Next]_vars

---------------------------------------------------------------------------
(* Claims checked under Spec.                                              *)

\* C1: in every reachable state of the WebGL page, whatever clicks, taps,
\* auto-spawns and updateForceFields frames came before, the instance holds
\* at most maxForceFields force fields, and maxForceFields is 40.
C1_GpuCapacity ==
    flowFieldsGL # Undefined =>
        /\ flowFieldsGL.maxForceFields = 40
        /\ Len(flowFieldsGL.forceFields) <= flowFieldsGL.maxForceFields

\* C1 witness: the set is full, after at least one updateForceFields frame
\* beyond the first, and holds fields of two different ages (spawns and
\* frames interleaved).
C1_Witness ==
    /\ flowFieldsGL # Undefined
    /\ Len(flowFieldsGL.forceFields) = flowFieldsGL.maxForceFields
    /\ flowFieldsGL.config.time >= 2
    /\ flowFieldsGL.forceFields[1].life # flowFieldsGL.forceFields[40].life

\* The point the force is evaluated at for C5: 50 to the right of where
\* the clicks land, well inside every field's radius.
C5_Probe == Vec(I(450), I(300))

\* The sum the claim describes: the contribution of every live field of the
\* set, each one as the shader computes a single field's (the sum is exact,
\* so the order of the additions does not matter).
RECURSIVE C5_SumOverLive(_, _, _, _, _)
C5_SumOverLive(self, lo, hi, pos, u_time) ==
    IF lo > hi THEN VZero
    ELSE IF lo = hi
    THEN FieldContribution(GetForceFieldUniforms(self)[lo - 1], pos, u_time)
    ELSE VAdd(C5_SumOverLive(self, lo, (lo + hi) \div 2, pos, u_time),
              C5_SumOverLive(self, (lo + hi) \div 2 + 1, hi, pos, u_time))

\* C5: in every reachable state, with any number of live fields up to the
\* cap, the force getForceFieldEffect returns at the probe point under the
\* uniforms update() uploads equals the sum of the contributions of all
\* live fields in range.
C5_SumsAllLiveFields ==
    flowFieldsGL # Undefined =>
        GetForceFieldEffect(GetForceFieldUniforms(flowFieldsGL), Len(flowFieldsGL.forceFields),
                            C5_Probe, flowFieldsGL.config.time)
          = C5_SumOverLive(flowFieldsGL, 1, Len(flowFieldsGL.forceFields), C5_Probe,
                           flowFieldsGL.config.time)

\* C10: after any sequence of configuration changes, backgroundStrength is
\* in [0, 2] and forceFieldStrength is in [0.2, 3], in the canvas page's
\* config and in the WebGL instance's config.
C10_StrengthsClamped ==
    /\ RLe(Zero, config.backgroundStrength) /\ RLe(config.backgroundStrength, I(2))
    /\ RLe(Rat(1, 5), config.forceFieldStrength) /\ RLe(config.forceFieldStrength, I(3))
    /\ flowFieldsGL # Undefined =>
         /\ RLe(Zero, flowFieldsGL.config.backgroundStrength)
         /\ RLe(flowFieldsGL.config.backgroundStrength, I(2))
         /\ RLe(Rat(1, 5), flowFieldsGL.config.forceFieldStrength)
         /\ RLe(flowFieldsGL.config.forceFieldStrength, I(3))

---------------------------------------------------------------------------
(* SpecPhysics: the WebGL page with particles, in forces-only mode with    *)
(* brownian motion, friction and respawn turned off, so that a particle's  *)
(* path is exact: frames, pausing, window resizes, clicks that add fields  *)
(* and changes of globalGravity.                                           *)

PhysicsParticles == 1

MaxPhysicsTime == 4

\* The Math.random() draws of initializeParticles, one record per particle.
ParticleDraws ==
    { [x |-> rx, y |-> Half, vx |-> rvx, vy |-> Half] :
        rx \in {Zero, Rat(3, 4)}, rvx \in {Zero, Rat(3, 4)} }

PhysicsConfig ==
    [ particleCount |-> PhysicsParticles, noiseMode |-> 5, brownianMotion |-> Zero,
      friction |-> Zero, respawnRate |-> Zero ]

\* The draws of a frame and of a click in SpecPhysics.
PhysicsFrameDraws == { r \in FrameDraws : r.auto = Zero }

SmallWindow == [width |-> I(250), height |-> I(200)]

GravityInputs == { Zero, I(10) }

InitPhysics ==
    /\ glCanvas = Window
    /\ \E d \in ParticleDraws : \E r \in PhysicsFrameDraws :
         \E a \in { Started(PhysicsConfig,
                             GoodEnv(PhysicsParticles, [i \in 1..PhysicsParticles |-> d]), r) } :
            /\ flowFieldsGL = a.self
            /\ physicsPass = a.pass
    /\ glRaf = 1
    /\ initResult = "true"
    /\ InitCPU

NextPhysics ==
    \/ \E r \in PhysicsFrameDraws :
          /\ flowFieldsGL.paused \/ flowFieldsGL.config.time < MaxPhysicsTime
          /\ Frame(r)
    \/ \E d \in SpawnDraws :
          /\ Len(flowFieldsGL.forceFields) < 1
          /\ Click(TapPoint.x, TapPoint.y, d)
    \/ \E w \in {Window, SmallWindow} : Resize(w.width, w.height)
    \/ \E b \in BOOLEAN : SetPaused(b)
    \/ \E g \in GravityInputs : SetConfig("globalGravity", g)

SpecPhysics == InitPhysics /\ [][NextPhysics]_vars

---------------------------------------------------------------------------
(* Claims checked under SpecPhysics.                                       *)

\* C3: every step in which update() runs (config.time advances) reads the
\* texture that was current, writes the other one (both indexes in {0, 1}
\* and different), leaves the texture it read as it was, and flips
\* currentTexture once, to the texture just written; a step in which
\* update() does not run leaves currentTexture and both textures alone.
C3_PingPong ==
    [][ IF flowFieldsGL'.config.time # flowFieldsGL.config.time
        THEN /\ physicsPass'.read = flowFieldsGL.currentTexture
             /\ physicsPass'.read \in {0, 1}
             /\ physicsPass'.write \in {0, 1}
             /\ physicsPass'.write # physicsPass'.read
             /\ flowFieldsGL'.particleTextures[physicsPass'.read]
                  = flowFieldsGL.particleTextures[physicsPass'.read]
             /\ flowFieldsGL'.currentTexture = physicsPass'.write
             /\ flowFieldsGL'.currentTexture = 1 - flowFieldsGL.currentTexture
        ELSE /\ flowFieldsGL'.currentTexture = flowFieldsGL.currentTexture
             /\ flowFieldsGL'.particleTextures = flowFieldsGL.particleTextures ]_vars

\* C3 witness: after the second update() the pass has read texture 1 and
\* written texture 0, texture 0 is current again, and the two textures
\* hold different particle states.
C3_Witness ==
    /\ flowFieldsGL.config.time >= 2
    /\ physicsPass = [read |-> 1, write |-> 0]
    /\ flowFieldsGL.currentTexture = 0
    /\ flowFieldsGL.particleTextures[0] # flowFieldsGL.particleTextures[1]

\* C4: after every step in which the physics pass runs, every particle of
\* the current texture has 0 <= x < width and 0 <= y < height of the canvas.
C4_WrapInvariant ==
    [][ flowFieldsGL'.config.time # flowFieldsGL.config.time =>
          \A i \in 1..flowFieldsGL'.config.particleCount :
             /\ RLe(Zero, flowFieldsGL'.particleTextures[flowFieldsGL'.currentTexture][i].x)
             /\ RLt(flowFieldsGL'.particleTextures[flowFieldsGL'.currentTexture][i].x, glCanvas'.width)
             /\ RLe(Zero, flowFieldsGL'.particleTextures[flowFieldsGL'.currentTexture][i].y)
             /\ RLt(flowFieldsGL'.particleTextures[flowFieldsGL'.currentTexture][i].y, glCanvas'.height)
      ]_vars

---------------------------------------------------------------------------
(* SpecInit: the WebGL page from its load.  initWebGL() runs once against  *)
(* a browser that may refuse the context, fail to compile a shader or fail *)
(* to link a program; the canvas and window listeners then go on firing.   *)
(* The page constructs with the default particleCount; env.particleCount   *)
(* stands in for it, scaled down.                                          *)

MaxInitFields == 2

InitPage ==
    /\ flowFieldsGL = Undefined
    /\ glCanvas = Window
    /\ glRaf = 0
    /\ initResult = "none"
    /\ physicsPass = NoPass
    /\ InitCPU

\* What the browser may answer to the construction.
InitEnvs ==
    { [ webgl2 |-> w, badShaders |-> bs, badLinks |-> bl, convert |-> "nearest",
        particleCount |-> 0, particles |-> << >>, canvas |-> Window ] :
      w \in BOOLEAN,
      bs \in { {}, {"copy"} },
      bl \in { {}, {"physics"}, {"render"} } }

NextInit ==
    \/ \E env \in InitEnvs : \E r \in FrameDraws : InitWebGL(env, r)
    \/ \E r \in FrameDraws :
          /\ flowFieldsGL # Undefined
          /\ flowFieldsGL.paused \/ flowFieldsGL.config.time < MaxTime
          /\ Frame(r)
    \/ \E d \in SpawnDraws :
          /\ flowFieldsGL # Undefined
          /\ Len(flowFieldsGL.forceFields) < MaxInitFields
          /\ Click(TapPoint.x, TapPoint.y, d)
    \/ \E b \in BOOLEAN : SetPaused(b)
    \/ Resize(SmallWindow.width, SmallWindow.height)

SpecInit == InitPage /\ [][NextInit]_vars

\* C9: initialisation is all-or-nothing.  Whenever initWebGL() has returned
\* false, the constructor threw, so the page holds no instance; and an
\* instance the page holds is fully constructed (all four programs linked),
\* so no partially constructed simulation is returned or animated.
C9_InitAllOrNothing ==
    /\ initResult = "false" => flowFieldsGL = Undefined
    /\ flowFieldsGL # Undefined =>
          \A p \in ProgramNames : flowFieldsGL.programs[p] # NULL

---------------------------------------------------------------------------
(* SpecCPU: the flow.js page from its load, under spawn keys, clicks,      *)
(* right-clicks, the clear key, pausing and frames.  Every field takes the *)
(* same draws and the clicks land where those draws place a field, so that *)
(* the set can fill up to its capacity.                                    *)

MaxCpuTime == 2

\* The draws of one new ForceField(): a sink for a random type, no drift.
FieldDraws ==
    [ x |-> Half, y |-> Half, speed |-> Zero, vx |-> Half, vy |-> Half, pick |-> Zero,
      strength |-> Half, radius |-> Half, rotation |-> Rat(3, 4), life |-> Zero,
      pulsePhase |-> Zero, shearAngle |-> Zero, laneAngle |-> Zero,
      turbulenceSeed |-> Zero ]

\* The draws of one frame of animate().
CpuFrameDraws == { [auto |-> a, add |-> FieldDraws] : a \in {Zero, Half} }

\* The WebGL page is not loaded.
NoWebGL ==
    /\ flowFieldsGL = Undefined
    /\ glCanvas = Window
    /\ glRaf = 0
    /\ initResult = "none"
    /\ physicsPass = NoPass

InitCpuPage == InitCPU /\ NoWebGL

NextCPU ==
    \/ KeySpawn("sink", FieldDraws)
    \/ CanvasClick(I(400), I(300), FieldDraws)
    \/ spawnTypeOnClick = "random" /\ ContextMenu
    \/ KeyClear
    \/ TogglePause
    \/ \E r \in CpuFrameDraws : time < MaxCpuTime /\ CpuAnimate(r)

SpecCPU == InitCpuPage /\ [][NextCPU]_vars

\* C2: in every reachable state of the flow.js page, whatever spawn keys,
\* canvas clicks, frames (with their auto-spawns and dead-field filtering)
\* and clears came before, forceFields holds at most 15 fields.
C2_CpuCapacity == Len(forceFields) <= 15

\* C2 witness: the set is full after at least one frame, its oldest field
\* older than its newest (spawns and frames interleaved).
C2_Witness ==
    /\ Len(forceFields) = 15
    /\ time >= 1
    /\ forceFields[1].life # forceFields[15].life

---------------------------------------------------------------------------
(* SpecField: one flow.js force field followed through its whole life.  A  *)
(* spawn key is pressed before the first frame; frames follow until the    *)
(* field has been filtered out.                                            *)

MaxFieldCount == 1
MaxSpawnTime  == 0
MaxFieldTime  == 503

CpuTypes ==
    { "sink", "source", "vortex", "gravity", "shear", "repulsor", "turbulence", "lane" }

\* The keys pressed and the life drawn for the field followed: each type
\* with a life of 500 frames, and a sink with a life of 500.5 frames.
FieldKeys ==
    { <<type, Zero>> : type \in CpuTypes } \cup { <<"sink", Rat(1, 2000)>> }

\* The draws of the field followed: a radius of 140, a drift to the right.
LifeDraws(l) == [FieldDraws EXCEPT !.life = l, !.vx = Rat(3, 4)]

\* The draw of a frame that does not spawn.
QuietFrameDraws == { [auto |-> Half, add |-> FieldDraws] }

NextField ==
    \/ \E k \in FieldKeys :
          /\ Len(forceFields) < MaxFieldCount
          /\ time <= MaxSpawnTime
          /\ KeySpawn(k[1], LifeDraws(k[2]))
    \/ \E r \in QuietFrameDraws : time < MaxFieldTime /\ CpuAnimate(r)

SpecField == InitCpuPage /\ [][NextField]_vars

\* Where getForce is evaluated, relative to the field: distances 50, 50, 6
\* and 100, all inside (5, radius).
ProbeOffsets ==
    { Vec(I(50), Zero), Vec(I(30), I(40)), Vec(Zero, I(-6)), Vec(I(-60), I(-80)) }

\* Whether the force field f contributes at offset o is the zero vector,
\* that is, whether its magnitude is 0.
ForceIsZero(f, o) ==
    \E force \in { GetForce(f, RAdd(f.x, o.x), RAdd(f.y, o.y), time) } :
        force.fx = Zero /\ force.fy = Zero

\* C6: for every field of the set, of each of the eight types, and every
\* probe point at a distance inside (5, radius), the force getForce returns
\* has magnitude 0 when life = 0 and when life = maxLife, and a magnitude
\* above 0 whenever 0 < life < maxLife.
C6_FadeEnvelope ==
    \A i \in 1..Len(forceFields) : \A o \in ProbeOffsets :
        /\ (forceFields[i].life = Zero \/ forceFields[i].life = forceFields[i].maxLife)
              => ForceIsZero(forceFields[i], o)
        /\ (RLt(Zero, forceFields[i].life) /\ RLt(forceFields[i].life, forceFields[i].maxLife))
              => ~ForceIsZero(forceFields[i], o)

\* C6 witness: a turbulence field that has been updated 500 times and is at
\* life = 0, still in the set.
C6_Witness ==
    /\ time = 500
    /\ Len(forceFields) = 1
    /\ forceFields[1].type = "turbulence"
    /\ forceFields[1].life = Zero

\* C8: a field is removed within its initial life plus one frames: a field
\* still in the set has been through at most (initial life) frames, each of
\* which took exactly 1 from its life.
C8_RemovedWithinLifePlusOne ==
    \A i \in 1..Len(forceFields) :
        RLe(RSub(forceFields[i].maxLife, forceFields[i].life), forceFields[i].maxLife)

---------------------------------------------------------------------------
(* SpecScenario: the sink scenario on both pages.  flow.js holds a sink at *)
(* (500,500); the WebGL page gets one by a click at that point.  The       *)
(* scenario's radius, 200, is the least upper bound of what the flow.js    *)
(* constructor draws (80 + Math.random() * 120), so the flow.js field is   *)
(* given as getForce's input, with the radius drawn at 1/2 next to it; on  *)
(* the WebGL page 200 is drawn once maxForceRadius has been set to 400.    *)

MaxScenarioTime   == 3
MaxScenarioFields == 1

\* new ForceField('sink'), placed as the click listener places a field,
\* with the given radius.
ScenarioField(radius) ==
    [ NewForceField("sink", FieldDraws, canvas, CpuDefaultConfig)
      EXCEPT !.x = I(500), !.y = I(500), !.radius = radius ]

\* addForceField's draws on the WebGL page: a sink, 2/7 of the radius
\* range, no drift.
ScenarioDraws ==
    [ pick |-> Zero, life |-> Zero, strength |-> Half, radius |-> Rat(2, 7),
      rotation |-> Half, vx |-> Half, vy |-> Half ]

InitScenario ==
    /\ glCanvas = Window
    /\ \E r \in FrameDraws :
         \E a \in { Started([particleCount |-> 0], GoodEnv(0, << >>), r) } :
            /\ flowFieldsGL = a.self
            /\ physicsPass = a.pass
    /\ glRaf = 1
    /\ initResult = "true"
    /\ config = CpuDefaultConfig
    /\ time = 0
    /\ paused = FALSE
    /\ animationId = "request"
    /\ spawnTypeOnClick = "random"
    /\ particles = << >>
    /\ canvas = Window
    /\ cpuMouse = InitialMouse
    /\ noise = NoiseGenerator(I(5000))
    /\ OtherPagesNotLoaded
    /\ \E radius \in { I(140), I(200) } : forceFields = << ScenarioField(radius) >>

NextScenario ==
    \/ \E r \in QuietFrameDraws : time < MaxScenarioTime /\ CpuAnimate(r)
    \/ /\ Len(flowFieldsGL.forceFields) < MaxScenarioFields
       /\ Click(I(500), I(100), ScenarioDraws)
    \/ \E r \in FrameDraws :
          /\ flowFieldsGL.config.time < MaxScenarioTime
          /\ Frame(r)
    \/ SetConfig("maxForceRadius", I(400))

SpecScenario == InitScenario /\ [][NextScenario]_vars

\* The scenario's particle.
ScenarioParticle == Vec(I(550), I(500))

\* A flow.js field, or a WebGL field, that is the scenario's sink.
IsScenarioSink(f, sink) ==
    /\ f.type = sink
    /\ f.x = I(500) /\ f.y = I(500)
    /\ f.radius = I(200)

\* The force flow.js's getForce returns for the scenario's particle.
CpuScenarioForce(f) == GetForce(f, ScenarioParticle.x, ScenarioParticle.y, time)

\* The force the shader's getForceFieldEffect returns for the scenario's
\* particle under the uniforms update() uploads.
GpuScenarioForce ==
    GetForceFieldEffect(GetForceFieldUniforms(flowFieldsGL), Len(flowFieldsGL.forceFields),
                        ScenarioParticle, flowFieldsGL.config.time)

\* Every field of the WebGL page is the scenario's sink, and there is one.
GpuHoldsScenarioSink ==
    /\ Len(flowFieldsGL.forceFields) >= 1
    /\ \A i \in 1..Len(flowFieldsGL.forceFields) :
          IsScenarioSink(flowFieldsGL.forceFields[i], 0)

---------------------------------------------------------------------------
(* Claims checked under Spec: pausing.                                     *)

\* C11: once the pause flag is set no further frame callback is scheduled
\* until unpaused: whenever the WebGL instance is paused and a frame
\* callback is pending, the animate() that callback runs (to completion)
\* does not request another frame.
C11_PausedFrameRequestsNothing ==
    (flowFieldsGL # Undefined /\ flowFieldsGL.paused /\ glRaf > 0)
        => \A r \in FrameDraws :
              ~Animate(flowFieldsGL, glCanvas, r, physicsPass).requested

---------------------------------------------------------------------------
(* Claims checked under SpecPhysics: determinism of the step.              *)

\* C12: in forces-only mode with brownianMotion = 0, respawnRate = 0 and
\* no auto-spawn, the particle state and the force-field state a frame
\* leaves are the same whatever Math.random() draws the frame takes: they
\* are a function of the state the frame starts from, so that two runs of N
\* steps from identical states end in identical states.
C12_StepDeterministic ==
    [][ flowFieldsGL'.config.time # flowFieldsGL.config.time
          => \A r \in FrameDraws :
                \E upd \in { Update(flowFieldsGL, glCanvas, r) } :
                   /\ upd.self.particleTextures = flowFieldsGL'.particleTextures
                   /\ upd.self.currentTexture = flowFieldsGL'.currentTexture
                   /\ upd.self.forceFields = flowFieldsGL'.forceFields ]_vars

\* C12 witness: three steps have run in forces-only mode without brownian
\* motion, respawn or auto-spawn, a force field is in the set, and the
\* particle has moved in the last step.
C12_Witness ==
    /\ flowFieldsGL.config.time >= 3
    /\ flowFieldsGL.config.noiseMode = 5
    /\ flowFieldsGL.config.brownianMotion = Zero
    /\ flowFieldsGL.config.respawnRate = Zero
    /\ flowFieldsGL.config.forceSpawnRate = Zero
    /\ Len(flowFieldsGL.forceFields) = 1
    /\ flowFieldsGL.particleTextures[0] # flowFieldsGL.particleTextures[1]

---------------------------------------------------------------------------
(* SpecTrail: the WebGL page with one particle that crosses TrailPixel in  *)
(* its first two frames and moves on, in forces-only mode without brownian *)
(* motion, friction or respawn; frames and window resizes follow.  The GL  *)
(* stores a colour in 8 bits by rounding to nearest or by rounding down.   *)

MaxTrailTime == 60

\* The draws of the particle: it starts at (100, 50) and moves right by
\* half a pixel per frame.
TrailParticleDraws == [x |-> Rat(1, 8), y |-> Rat(1, 12), vx |-> Rat(3, 4), vy |-> Half]

TrailEnvs ==
    { [GoodEnv(1, << TrailParticleDraws >>) EXCEPT !.convert = c] : c \in {"nearest", "down"} }

InitTrail ==
    /\ glCanvas = Window
    /\ \E env \in TrailEnvs : \E r \in PhysicsFrameDraws :
         \E a \in { Started([PhysicsConfig EXCEPT !.particleCount = 1], env, r) } :
            /\ flowFieldsGL = a.self
            /\ physicsPass = a.pass
    /\ glRaf = 1
    /\ initResult = "true"
    /\ InitCPU

NextTrail ==
    \/ \E r \in PhysicsFrameDraws :
          /\ flowFieldsGL.config.time < MaxTrailTime
          /\ Frame(r)
    \/ \E w \in {Window, SmallWindow} : Resize(w.width, w.height)

SpecTrail == InitTrail /\ [][NextTrail]_vars

\* C13: a step that resizes (the canvas or the trail texture changes size,
\* or the trail is cleared outside a frame) leaves the trail texture at the
\* canvas's new size and cleared, and leaves both particle textures,
\* currentTexture, the force fields and time as they were: no particle
\* position is rescaled.
C13_ResizeClearsTrailOnly ==
    [][ (\/ (flowFieldsGL'.config.time = flowFieldsGL.config.time
             /\ flowFieldsGL' # flowFieldsGL)
         \/ glCanvas' # glCanvas)
          => /\ flowFieldsGL'.trail = [width |-> glCanvas'.width, height |-> glCanvas'.height,
                                       pixel |-> 0]
             /\ flowFieldsGL'.particleTextures = flowFieldsGL.particleTextures
             /\ flowFieldsGL'.currentTexture = flowFieldsGL.currentTexture
             /\ flowFieldsGL'.forceFields = flowFieldsGL.forceFields
             /\ flowFieldsGL'.config = flowFieldsGL.config ]_vars

\* C13 witness: the window has been resized to the small size after the
\* particle had brightened TrailPixel: the trail has the small size and
\* TrailPixel is black at time 3, and the particle is where its path put it.
C13_Witness ==
    /\ glCanvas = SmallWindow
    /\ flowFieldsGL.trail = [width |-> SmallWindow.width, height |-> SmallWindow.height,
                             pixel |-> 0]
    /\ flowFieldsGL.config.time = 3
    /\ flowFieldsGL.particleTextures[flowFieldsGL.currentTexture][1].x = Rat(203, 2)

\* Whether a particle drawn by render() covers TrailPixel in instance self.
TrailPixelDrawn(self) ==
    \E i \in 1..self.config.particleCount :
        CoversTrailPixel(self.particleTextures[self.currentTexture][i], self.config.particleSize)

\* C14: with fadeAmount 0.03, on every frame that draws no particle on
\* TrailPixel, the stored value of the pixel strictly decreases while it is
\* above zero.
C14_TrailKeepsDarkening ==
    [][ (/\ flowFieldsGL'.config.time # flowFieldsGL.config.time
         /\ flowFieldsGL.config.fadeAmount = Rat(3, 100)
         /\ flowFieldsGL.trail.pixel > 0
         /\ ~TrailPixelDrawn(flowFieldsGL'))
          => flowFieldsGL'.trail.pixel < flowFieldsGL.trail.pixel ]_vars

---------------------------------------------------------------------------
(* SpecSpawn: the WebGL page under clicks and frames, with the instance's  *)
(* enabledForceTypes written by the page that hosts it.  The array is a    *)
(* public field of the global instance ("which types can auto-spawn");     *)
(* addForceField reads it on every call with type -1.                      *)

MaxSpawnFrames == 2

EnabledInputs ==
    { <<TRUE, TRUE, TRUE, TRUE, TRUE>>,
      <<TRUE, FALSE, FALSE, FALSE, FALSE>>,
      <<FALSE, FALSE, FALSE, FALSE, FALSE>> }

\* flowFieldsGL.enabledForceTypes = enabled, from the hosting page.
SetEnabledForceTypes(enabled) ==
    /\ flowFieldsGL # Undefined
    /\ flowFieldsGL.enabledForceTypes # enabled
    /\ flowFieldsGL' = [flowFieldsGL EXCEPT !.enabledForceTypes = enabled]
    /\ UNCHANGED <<glCanvas, glRaf, initResult, physicsPass, cpuVars, pageVars>>

InitSpawn ==
    /\ glCanvas = Window
    /\ \E r \in FrameDraws :
         \E a \in { Started([particleCount |-> 0], GoodEnv(0, << >>), r) } :
            /\ flowFieldsGL = a.self
            /\ physicsPass = a.pass
    /\ glRaf = 1
    /\ initResult = "true"
    /\ InitCPU

NextSpawn ==
    \/ \E r \in FrameDraws :
          /\ flowFieldsGL.config.time < MaxSpawnFrames
          /\ Frame(r)
    \/ \E d \in SpawnDraws : Click(TapPoint.x, TapPoint.y, d)
    \/ \E e \in EnabledInputs : SetEnabledForceTypes(e)

SpecSpawn == InitSpawn /\ [][NextSpawn]_vars

\* C15: a call of addForceField (here: a click, which calls it with type
\* -1) never leaves the set of force fields smaller than it was, whatever
\* enabledForceTypes holds; and on a full set of 40 it removes the oldest
\* field and appends the new one.
C15_AddNeverShrinks ==
    [][ ( /\ flowFieldsGL'.config.time = flowFieldsGL.config.time
          /\ flowFieldsGL'.enabledForceTypes = flowFieldsGL.enabledForceTypes )
        => /\ Len(flowFieldsGL'.forceFields) >= Len(flowFieldsGL.forceFields)
           /\ Len(flowFieldsGL.forceFields) = 40
                => /\ Len(flowFieldsGL'.forceFields) = 40
                   /\ \A i \in 1..39 :
                        flowFieldsGL'.forceFields[i] = flowFieldsGL.forceFields[i + 1]
      ]_vars

---------------------------------------------------------------------------
(* Claims checked under SpecCPU: the spawn call sites.                     *)

\* C16: in flow.js a spawn request is rejected only at the cap.  While the
\* set holds fewer than 15 fields, a type key, a canvas click and an
\* auto-spawn each add one field; a request made on a full set leaves the
\* set as it was.
C16_RejectedOnlyAtCap ==
    /\ Len(forceFields) < 15 =>
          /\ Len(SpawnForceField(forceFields, "sink", FieldDraws, canvas, config))
                = Len(forceFields) + 1
          /\ Len(AutoSpawn(forceFields, [auto |-> Zero, add |-> FieldDraws], canvas, config))
                = Len(forceFields) + 1
          /\ Len(ClickSpawn(forceFields, spawnTypeOnClick, I(400), I(300), FieldDraws,
                            canvas, config))
                = Len(forceFields) + 1
    /\ Len(forceFields) >= 15 =>
          /\ SpawnForceField(forceFields, "sink", FieldDraws, canvas, config) = forceFields
          /\ ClickSpawn(forceFields, spawnTypeOnClick, I(400), I(300), FieldDraws,
                        canvas, config) = forceFields

---------------------------------------------------------------------------
(* SpecBounds: both pages with at most one force field each, spawned in    *)
(* the middle or on the left edge and drifting left, under frames and      *)
(* window resizes.                                                         *)

MaxBoundsTime   == 3
MaxBoundsFields == 1

EdgePoint == Vec(Zero, I(300))

\* addForceField draws whose life draw is 0.5: a life of 750.
LongLifeDraws == { [d EXCEPT !.life = Half] : d \in SpawnDraws }

\* new ForceField() draws that put the field on the left edge, drifting left.
EdgeFieldDraws == [FieldDraws EXCEPT !.x = Zero, !.vx = Zero]

NextBounds ==
    \/ \E r \in FrameDraws :
          /\ flowFieldsGL.config.time < MaxBoundsTime
          /\ Frame(r)
    \/ \E p \in {TapPoint, EdgePoint} : \E d \in SpawnDraws \cup LongLifeDraws :
          /\ Len(flowFieldsGL.forceFields) < MaxBoundsFields
          /\ Click(p.x, p.y, d)
    \/ \E w \in {Window, SmallWindow} : Resize(w.width, w.height)
    \/ \E d \in {FieldDraws, EdgeFieldDraws} :
          /\ Len(forceFields) < MaxBoundsFields
          /\ KeySpawn("sink", d)
    \/ \E r \in QuietFrameDraws : time < MaxBoundsTime /\ CpuAnimate(r)
    \/ \E w \in {Window, SmallWindow} : CpuResize(w.width, w.height)

SpecBounds == InitSpawn /\ [][NextBounds]_vars

InBounds(f, cv) ==
    /\ RLe(Zero, f.x) /\ RLe(f.x, cv.width)
    /\ RLe(Zero, f.y) /\ RLe(f.y, cv.height)

\* The flow.js half of C17: after a frame of animate() every field lies
\* within the canvas.
CpuFieldsInBoundsAfterStep ==
    [][ time' # time =>
          \A i \in 1..Len(forceFields') : InBounds(forceFields'[i], canvas') ]_vars

\* C17: after every step of the force field set (a frame of flow.js's
\* animate(), a frame of FlowFieldsGL.updateForceFields), whatever spawns,
\* frames and resizes came before, every field's position lies within
\* [0, width] x [0, height] of its canvas.
C17_FieldsInBoundsAfterStep ==
    [][ /\ time' # time =>
             \A i \in 1..Len(forceFields') : InBounds(forceFields'[i], canvas')
        /\ flowFieldsGL'.config.time # flowFieldsGL.config.time =>
             \A i \in 1..Len(flowFieldsGL'.forceFields) :
                InBounds(flowFieldsGL'.forceFields[i], glCanvas')
      ]_vars

\* The factor the physics shader multiplies slot i's force by: the life
\* uniform getForceFieldUniforms() writes for forceFields[i].
LifeUniform(self, i) == GetForceFieldUniforms(self)[i - 1].life

\* C18: the factor by which a GPU field's force is scaled never exceeds 1,
\* and a field that has just been spawned starts its ramp at 0: it does
\* not act at full strength on its first frame.
C18_GpuFadeEnvelope ==
    [][ /\ \A i \in 1..Len(flowFieldsGL'.forceFields) :
             RLe(LifeUniform(flowFieldsGL', i), One)
        /\ ( /\ flowFieldsGL'.config.time = flowFieldsGL.config.time
             /\ Len(flowFieldsGL'.forceFields) = Len(flowFieldsGL.forceFields) + 1 )
           => LifeUniform(flowFieldsGL', Len(flowFieldsGL'.forceFields)) = Zero
      ]_vars

---------------------------------------------------------------------------
(* SpecOrder: both pages stepping particles that interact.  flow.js holds  *)
(* OrderParticles particles in a row, 20 px apart, in forces-only mode     *)
(* without brownian motion and in 'attract' interaction at first; the      *)
(* WebGL page is the one of SpecPhysics.                                   *)

OrderParticles == 2
MaxOrderTime   == 1

OrderConfig ==
    [CpuDefaultConfig EXCEPT !.particleCount = OrderParticles, !.noiseMode = 5,
                             !.brownianMotion = Zero, !.particleInteraction = "attract"]

InitOrder ==
    /\ glCanvas = Window
    /\ \E d \in ParticleDraws : \E r \in PhysicsFrameDraws :
         \E a \in { Started(PhysicsConfig,
                             GoodEnv(PhysicsParticles, [i \in 1..PhysicsParticles |-> d]), r) } :
            /\ flowFieldsGL = a.self
            /\ physicsPass = a.pass
    /\ glRaf = 1
    /\ initResult = "true"
    /\ forceFields = << >>
    /\ config = OrderConfig
    /\ time = 0
    /\ paused = FALSE
    /\ animationId = "request"
    /\ spawnTypeOnClick = "random"
    /\ canvas = Window
    /\ cpuMouse = InitialMouse
    /\ noise = NoiseGenerator(I(5000))
    /\ OtherPagesNotLoaded
    /\ particles = [i \in 1..OrderParticles |->
                      ParticleReset([ParticleStepDraws EXCEPT !.x = Rat(19 + i, 40)],
                                    Window, OrderConfig)]

NextOrder ==
    \/ \E r \in PhysicsFrameDraws :
          /\ flowFieldsGL.config.time < MaxOrderTime + 1
          /\ Frame(r)
    \/ \E d \in SpawnDraws :
          /\ Len(flowFieldsGL.forceFields) < 1
          /\ Click(TapPoint.x, TapPoint.y, d)
    \/ \E r \in QuietFrameDraws : time < MaxOrderTime /\ CpuAnimate(r)
    \/ CycleInteraction

SpecOrder == InitOrder /\ [][NextOrder]_vars

\* The particles a frame of flow.js would leave if every particle's new
\* state were computed from the particles as the frame found them.
FromPreviousFrame(ps, fields, r, cv, cfg, t) ==
    [i \in 1..Len(ps) |-> ParticleUpdate(ps, i, BuildSpatialGrid(ps), fields, r, cv, cfg, t)]

\* C19: within a frame every particle's new state is a function of the
\* previous frame's particle states only.  On the WebGL page the texture a
\* physics pass leaves current holds, for every texel, main() applied to
\* the texture that was current before; in flow.js the particles a frame
\* leaves are those computed from the particles the frame found.
C19_OrderIndependent ==
    [][ /\ flowFieldsGL'.config.time # flowFieldsGL.config.time =>
             \E r \in PhysicsFrameDraws :
                \E u \in { PhysicsUniforms(UpdateForceFields(flowFieldsGL, glCanvas, r), glCanvas) } :
                   flowFieldsGL'.particleTextures[flowFieldsGL'.currentTexture]
                     = [i \in 1..(flowFieldsGL.textureSize * flowFieldsGL.textureSize) |->
                          PhysicsMain(flowFieldsGL.particleTextures[flowFieldsGL.currentTexture], i, u)]
        /\ time' # time =>
             particles' = FromPreviousFrame(particles, forceFields', ParticleStepDraws,
                                            canvas, config, time)
      ]_vars

\* The WebGL half of C19.
GpuOrderIndependent ==
    [][ flowFieldsGL'.config.time # flowFieldsGL.config.time =>
             \E r \in PhysicsFrameDraws :
                \E u \in { PhysicsUniforms(UpdateForceFields(flowFieldsGL, glCanvas, r), glCanvas) } :
                   flowFieldsGL'.particleTextures[flowFieldsGL'.currentTexture]
                     = [i \in 1..(flowFieldsGL.textureSize * flowFieldsGL.textureSize) |->
                          PhysicsMain(flowFieldsGL.particleTextures[flowFieldsGL.currentTexture], i, u)]
      ]_vars

---------------------------------------------------------------------------
(* SpecPadding: the WebGL page with PaddingParticles particles in a        *)
(* texture of side ceil(sqrt(PaddingParticles)), so that the texture has   *)
(* texels beyond the last particle.  The particles rest on the canvas's    *)
(* bottom edge in forces-only mode; setConfig turns the charge and gravity *)
(* interactions on and off.                                                *)

PaddingParticles == 2
MaxPaddingTime   == 2

\* initializeParticles' draws: the first particle 100 or 200 px from the
\* corner, the others at mid-width; all at rest.
PaddingDraws(x) ==
    [i \in 1..PaddingParticles |->
        [x |-> IF i = 1 THEN x ELSE Half, y |-> Zero, vx |-> Half, vy |-> Half]]

InteractionInputs ==
    { <<"gravityInteraction", Zero>>, <<"gravityInteraction", One>>,
      <<"gravityInteraction", I(-1)>>,
      <<"chargeInteraction", Zero>>, <<"chargeInteraction", One>> }

InitPadding ==
    /\ glCanvas = Window
    /\ \E x \in { Rat(1, 8), Rat(1, 4) } : \E r \in PhysicsFrameDraws :
         \E a \in { Started([PhysicsConfig EXCEPT !.particleCount = PaddingParticles],
                             GoodEnv(PaddingParticles, PaddingDraws(x)), r) } :
            /\ flowFieldsGL = a.self
            /\ physicsPass = a.pass
    /\ glRaf = 1
    /\ initResult = "true"
    /\ InitCPU

NextPadding ==
    \/ \E r \in PhysicsFrameDraws :
          /\ flowFieldsGL.paused \/ flowFieldsGL.config.time < MaxPaddingTime
          /\ Frame(r)
    \/ \E kv \in InteractionInputs : SetConfig(kv[1], kv[2])
    \/ \E b \in BOOLEAN : SetPaused(b)
    \/ \E w \in {Window, SmallWindow} : Resize(w.width, w.height)

SpecPadding == InitPadding /\ [][NextPadding]_vars

\* tex with every texel beyond particleCount replaced by p.
WithPadding(tex, particleCount, p) ==
    [i \in DOMAIN tex |-> IF i > particleCount THEN p ELSE tex[i]]

\* A texel out of reach of every interaction, and one on the followed
\* trail pixel.
FarTexel     == [x |-> I(-1000), y |-> Zero, vx |-> Zero, vy |-> Zero]
OnPixelTexel == [x |-> RAdd(I(TrailPixel.x), Half), y |-> RAdd(I(TrailPixel.y), Half),
                 vx |-> Zero, vy |-> Zero]

\* C20: the texels whose index is beyond particleCount are unused.  Every
\* physics step gives each particle the state main() computes from a
\* texture whose padding texels are out of reach, whatever the interaction
\* settings; and the particle pass draws the same trail pixel whatever the
\* padding texels hold.
C20_PaddingUnused ==
    [][ flowFieldsGL'.config.time # flowFieldsGL.config.time =>
          /\ \E r \in PhysicsFrameDraws :
               \E u \in { PhysicsUniforms(UpdateForceFields(flowFieldsGL, glCanvas, r), glCanvas) } :
                  \A i \in 1..flowFieldsGL.config.particleCount :
                     flowFieldsGL'.particleTextures[flowFieldsGL'.currentTexture][i]
                       = PhysicsMain(WithPadding(flowFieldsGL.particleTextures[flowFieldsGL.currentTexture],
                                                 flowFieldsGL.config.particleCount, FarTexel),
                                     i, u)
          /\ ParticlePass(flowFieldsGL', 0)
               = ParticlePass([flowFieldsGL' EXCEPT
                                 !.particleTextures[flowFieldsGL'.currentTexture] =
                                     WithPadding(@, flowFieldsGL.config.particleCount, OnPixelTexel)],
                              0)
      ]_vars

\* The rendering half of C20.
PaddingNeverRendered ==
    flowFieldsGL # Undefined =>
        ParticlePass(flowFieldsGL, 0)
          = ParticlePass([flowFieldsGL EXCEPT
                            !.particleTextures[flowFieldsGL.currentTexture] =
                                WithPadding(@, flowFieldsGL.config.particleCount, OnPixelTexel)],
                         0)

---------------------------------------------------------------------------
(* The WebGL page: reinitWithParticleCount.                                *)

\* A variant of cleanup() that leaves the pending frame request in place.
CleanupNoCancel(self, raf) == raf

\* cleanup(), "Stop animation": the frame requests still outstanding once
\* the instance's latest request was cancelled (raf of them were before).
Cleanup(self, raf) == IF self.animationId # NULL /\ raf > 0 THEN raf - 1 ELSE raf

\* savedConfig of reinitWithParticleCount(count)
SavedConfig(self, count) == [self.config EXCEPT !.particleCount = count, !.time = 0]

\* reinitWithParticleCount(count): save the config, clean the old instance
\* up, build the new one on the same canvas and run its first animate().
\* A throwing constructor leaves the cleaned-up instance in flowFieldsGL.
ReinitWithParticleCount(count, env, r) ==
    /\ flowFieldsGL # Undefined
    /\ \E made \in { NewFlowFieldsGL(SavedConfig(flowFieldsGL, count), env) } :
          IF made.thrown
          THEN /\ glRaf' = Cleanup(flowFieldsGL, glRaf)
               /\ UNCHANGED <<flowFieldsGL, physicsPass>>
          ELSE \E a \in { Animate(made.instance, glCanvas, r, NoPass) } :
                  /\ flowFieldsGL' = a.self
                  /\ physicsPass' = a.pass
                  /\ glRaf' = Cleanup(flowFieldsGL, glRaf) + (IF a.requested THEN 1 ELSE 0)
    /\ UNCHANGED <<glCanvas, initResult, cpuVars, pageVars>>

---------------------------------------------------------------------------
(* SpecReinit: the WebGL page with a few particles, its frames, pause      *)
(* control, setConfig, clicks and reinitWithParticleCount.                 *)

MaxReinitTime == 2

\* The particle counts the page's control asks for.
ReinitCounts == {1, 2, 3, 5}

\* initializeParticles' draws for n particles: every particle in a place
\* of its own, at rest.
ReinitDraws(n) ==
    [i \in 1..n |-> [x |-> Rat(i, 8), y |-> Rat(i, 16), vx |-> Half, vy |-> Half]]

ReinitEnv(n) ==
    [ webgl2 |-> TRUE, badShaders |-> {}, badLinks |-> {}, convert |-> "nearest",
      particleCount |-> n, particles |-> ReinitDraws(n), canvas |-> glCanvas ]

\* setConfig arguments of the page's sliders.
ReinitConfigInputs ==
    { <<"backgroundStrength", One>>, <<"backgroundStrength", Rat(5, 2)>>,
      <<"forceFieldStrength", One>>, <<"forceFieldStrength", I(2)>> }

InitReinit ==
    /\ glCanvas = Window
    /\ \E r \in PhysicsFrameDraws :
         \E a \in { Started([PhysicsConfig EXCEPT !.particleCount = 2],
                             GoodEnv(2, ReinitDraws(2)), r) } :
            /\ flowFieldsGL = a.self
            /\ physicsPass = a.pass
    /\ glRaf = 1
    /\ initResult = "true"
    /\ InitCPU

NextReinit ==
    \/ \E r \in PhysicsFrameDraws :
          /\ flowFieldsGL.paused \/ flowFieldsGL.config.time < MaxReinitTime
          /\ Frame(r)
    \/ \E b \in BOOLEAN : SetPaused(b)
    \/ \E kv \in ReinitConfigInputs : SetConfig(kv[1], kv[2])
    \/ \E d \in SpawnDraws :
          /\ Len(flowFieldsGL.forceFields) < 1
          /\ Click(TapPoint.x, TapPoint.y, d)
    \/ \E n \in ReinitCounts : \E r \in PhysicsFrameDraws :
          ReinitWithParticleCount(n, ReinitEnv(n), r)

SpecReinit == InitReinit /\ [][NextReinit]_vars

\* C21: with size = ceil(sqrt(N)), size * size >= N; for every particle
\* index the coordinate createParticleBuffer generated addresses exactly
\* the flat texel of that index, the one initializeParticles filled and the
\* physics pass keeps; distinct indices address distinct texels, all inside
\* the size x size grid.
C21_ParticleAddressing ==
    flowFieldsGL # Undefined =>
        LET N    == flowFieldsGL.config.particleCount
            size == flowFieldsGL.textureSize
            buf  == flowFieldsGL.particleBuffer
        IN  /\ size * size >= N
            /\ size = 0 \/ (size - 1) * (size - 1) < N
            /\ Len(buf) = N
            /\ \A i \in 1..N :
                  /\ TexelAt(buf[i], size) = i
                  /\ TexelAt(buf[i], size) \in 1..(size * size)
                  /\ RLt(Zero, buf[i].x) /\ RLt(buf[i].x, One)
                  /\ RLt(Zero, buf[i].y) /\ RLt(buf[i].y, One)
                  /\ ParticleOfVertex(flowFieldsGL, i)
                       = flowFieldsGL.particleTextures[flowFieldsGL.currentTexture][i]
            /\ \A i, j \in 1..N :
                  i # j => TexelAt(buf[i], size) # TexelAt(buf[j], size)

\* Five particles in a 3 x 3 texture, stepped once since the reinitialisation:
\* the last particle sits in the second row.
C21_Witness ==
    /\ flowFieldsGL # Undefined
    /\ flowFieldsGL.config.particleCount = 5
    /\ flowFieldsGL.textureSize = 3
    /\ flowFieldsGL.config.time = 2
    /\ TexelAt(flowFieldsGL.particleBuffer[5], 3) = 5

\* The instance reinitWithParticleCount(n) constructs from the current one.
Reinitialized(n) == NewFlowFieldsGL(SavedConfig(flowFieldsGL, n), ReinitEnv(n))

\* C26: whatever frames, pause writes, setConfig calls, clicks and
\* reinitWithParticleCount calls came before, at most one animation-frame
\* request is outstanding; cleanup() of the current instance leaves none
\* outstanding, so no callback of the old instance is left when the new
\* instance starts animating; and the instance built for any new count has
\* every configuration key of the old one, with the old value except for
\* particleCount (the new count) and time (0).
C26_SingleFrameLoop ==
    flowFieldsGL # Undefined =>
        /\ glRaf <= 1
        /\ Cleanup(flowFieldsGL, glRaf) = 0
        /\ \A n \in ReinitCounts :
              /\ ~Reinitialized(n).thrown
              /\ Reinitialized(n).instance.animationId = NULL
              /\ DOMAIN Reinitialized(n).instance.config = DOMAIN flowFieldsGL.config
              /\ \A k \in DOMAIN flowFieldsGL.config \ {"particleCount", "time"} :
                    Reinitialized(n).instance.config[k] = flowFieldsGL.config[k]
              /\ Reinitialized(n).instance.config.particleCount = n
              /\ Reinitialized(n).instance.config.time = 0

\* A reinitialised instance (three particles) that was given a changed
\* configuration key before, paused and with its one request outstanding.
C26_Witness ==
    /\ flowFieldsGL # Undefined
    /\ flowFieldsGL.config.particleCount = 3
    /\ flowFieldsGL.config.backgroundStrength = Rat(5, 2)
    /\ flowFieldsGL.paused
    /\ glRaf = 1

---------------------------------------------------------------------------
(* SpecPause: both pages with particles and force fields, their frames and *)
(* their pause controls.  The WebGL page is the one of SpecPhysics;        *)
(* flow.js runs two particles in forces-only mode without brownian motion  *)
(* and without particle interaction; its field is spawned before the last *)
(* frame.                                                                  *)

MaxPauseTime == 2

PauseConfig == [OrderConfig EXCEPT !.particleInteraction = "none"]

InitPause ==
    /\ glCanvas = Window
    /\ \E d \in ParticleDraws : \E r \in PhysicsFrameDraws :
         \E a \in { Started(PhysicsConfig,
                             GoodEnv(PhysicsParticles, [i \in 1..PhysicsParticles |-> d]), r) } :
            /\ flowFieldsGL = a.self
            /\ physicsPass = a.pass
    /\ glRaf = 1
    /\ initResult = "true"
    /\ forceFields = << >>
    /\ config = PauseConfig
    /\ time = 0
    /\ paused = FALSE
    /\ animationId = "request"
    /\ spawnTypeOnClick = "random"
    /\ canvas = Window
    /\ cpuMouse = InitialMouse
    /\ noise = NoiseGenerator(I(5000))
    /\ OtherPagesNotLoaded
    /\ particles = [i \in 1..PauseConfig.particleCount |->
                      ParticleReset([ParticleStepDraws EXCEPT !.x = Rat(19 + i, 40)],
                                    Window, PauseConfig)]

NextPause ==
    \/ \E r \in PhysicsFrameDraws :
          /\ flowFieldsGL.paused \/ flowFieldsGL.config.time < MaxPauseTime + 1
          /\ Frame(r)
    \/ \E b \in BOOLEAN : SetPaused(b)
    \/ \E d \in SpawnDraws :
          /\ Len(flowFieldsGL.forceFields) < 1
          /\ Click(TapPoint.x, TapPoint.y, d)
    \/ \E r \in QuietFrameDraws :
          /\ paused \/ time < MaxPauseTime
          /\ CpuAnimate(r)
    \/ TogglePause
    \/ /\ Len(forceFields) < 1
       /\ time = MaxPauseTime - 1
       /\ KeySpawn("sink", FieldDraws)

SpecPause == InitPause /\ [][NextPause]_vars

\* C25: a frame of the WebGL page taken while paused leaves config.time,
\* currentTexture, both particle textures and the force fields (life and
\* position included) as they were; a frame of flow.js taken while paused
\* leaves time, particles and forceFields as they were.  A frame taken
\* while not paused adds exactly 1 to time and, on the WebGL page, flips
\* currentTexture.
C25_PausedFramesFreeze ==
    [][ /\ (\E r \in PhysicsFrameDraws : Frame(r)) =>
             IF flowFieldsGL.paused
             THEN /\ flowFieldsGL'.config = flowFieldsGL.config
                  /\ flowFieldsGL'.currentTexture = flowFieldsGL.currentTexture
                  /\ flowFieldsGL'.particleTextures = flowFieldsGL.particleTextures
                  /\ flowFieldsGL'.forceFields = flowFieldsGL.forceFields
             ELSE /\ flowFieldsGL'.config.time = flowFieldsGL.config.time + 1
                  /\ flowFieldsGL'.currentTexture = 1 - flowFieldsGL.currentTexture
        /\ (\E r \in QuietFrameDraws : CpuAnimate(r)) =>
             IF paused
             THEN /\ time' = time
                  /\ particles' = particles
                  /\ forceFields' = forceFields
             ELSE time' = time + 1
      ]_vars

\* Both pages paused after frames have run, each with a live force field
\* and with particles: the frames taken here are paused frames.
C25_Witness ==
    /\ flowFieldsGL.paused
    /\ flowFieldsGL.config.time = 2
    /\ Len(flowFieldsGL.forceFields) = 1
    /\ paused
    /\ time = MaxPauseTime
    /\ Len(forceFields) = 1
    /\ Len(particles) = 2

---------------------------------------------------------------------------
(* SpecNoise: flow.js with its reset key, which builds a new               *)
(* NoiseGenerator from a fresh Math.random() draw.                         *)

MaxNoiseTime == 2

\* Math.random() draws for the default seed Math.random() * 10000: the
\* seeds 0, 312.5, 625, 5000 and 7500.
SeedDraws == { Zero, Rat(1, 32), Rat(1, 16), Half, Rat(3, 4) }

\* reset(): noise = new NoiseGenerator(); init().  init() takes the
\* window's size and rebuilds the particles.
Reset(draw, innerWidth, innerHeight) ==
    /\ noise' = NoiseGenerator(RMul(draw, I(10000)))
    /\ canvas' = [width |-> innerWidth, height |-> innerHeight]
    /\ particles' = InitParticles(ParticleStepDraws, canvas', config)
    /\ UNCHANGED <<forceFields, config, time, paused, animationId, spawnTypeOnClick, cpuMouse,
                   glVars, pageVars>>

NextNoise ==
    \/ \E d \in SeedDraws : Reset(d, canvas.width, canvas.height)
    \/ Len(forceFields) < 2 /\ KeySpawn("sink", FieldDraws)
    \/ \E r \in QuietFrameDraws : time < MaxNoiseTime /\ CpuAnimate(r)
    \/ TogglePause

SpecNoise == InitCpuPage /\ [][NextNoise]_vars

\* perm[0..255] holds each of 0..255 exactly once.
IsPermutation(perm) ==
    \A v \in 0..255 : Cardinality({ i \in 1..256 : perm[i] = v }) = 1

\* perm[i + 256] = perm[i] for i in [0, 256)
IsDuplicated(perm) ==
    \A i \in 1..256 : perm[i + 256] = perm[i]

\* C22: whatever seed the generator was built from, the default seed
\* Math.random() * 10000 included, perm[0..255] is a permutation of 0..255
\* and perm[i + 256] = perm[i] for every i in [0, 256).
C22_PermIsPermutation ==
    /\ IsPermutation(noise.perm)
    /\ IsDuplicated(noise.perm)

\* What does hold: the table is duplicated, and it is a permutation
\* whenever the seed is an integer.
PermOfIntegerSeed ==
    /\ IsDuplicated(noise.perm)
    /\ noise.seed.d = 1 => IsPermutation(noise.perm)

---------------------------------------------------------------------------
(* SpecGravity: both pages with gravity fields.  The WebGL page is the one *)
(* of SpecPhysics, its clicks draw a gravity or a sink field; flow.js gets *)
(* its fields from the keys 4 and 1.                                       *)

MaxGravityTime == 2

\* The draws of a click: pick 3/5 gives type 3 (gravity), pick 0 a sink.
GravityDraws ==
    { [pick |-> p, life |-> Zero, strength |-> Half, radius |-> Half,
       rotation |-> Half, vx |-> Half, vy |-> Half] : p \in { Zero, Rat(3, 5) } }

NextGravity ==
    \/ \E r \in PhysicsFrameDraws :
          /\ flowFieldsGL.config.time < MaxGravityTime + 1
          /\ Frame(r)
    \/ \E d \in GravityDraws :
          /\ Len(flowFieldsGL.forceFields) < 1
          /\ Click(TapPoint.x, TapPoint.y, d)
    \/ \E type \in { "gravity", "sink" } :
          /\ Len(forceFields) < 1
          /\ KeySpawn(type, FieldDraws)
    \/ \E r \in QuietFrameDraws : time < MaxGravityTime /\ CpuAnimate(r)

SpecGravity == InitPhysics /\ [][NextGravity]_vars

\* The law of the claim at offset o from the field, for effective
\* strength s: 2s along -d plus 0.3 * 2s along perp.
GravityLaw(s, o, dist) ==
    VAdd(VScale(Normalize(o, dist), RNeg(RMul(I(2), s))),
         VScale(Perp(o, dist), RMul(Rat(3, 10), RMul(I(2), s))))

\* getForce of the flow.js field f at offset o obeys the law.
CpuObeysGravityLaw(f, o) ==
    \E dist \in { Length(o.x, o.y) } :
    \E force \in { GetForce(f, RAdd(f.x, o.x), RAdd(f.y, o.y), time) } :
       Vec(force.fx, force.fy) = GravityLaw(FinalStrength(f, dist), o, dist)

\* The shader's contribution of the uniform slot u at offset o obeys the law.
GpuObeysGravityLaw(u, o) ==
    \E dist \in { Length(o.x, o.y) } :
       FieldContribution(u, Vec(RAdd(u.x, o.x), RAdd(u.y, o.y)), flowFieldsGL.config.time)
         = GravityLaw(ScaledStrength(u, dist), o, dist)

\* C23: for every gravity field and every probe point at a distance inside
\* (5, radius), the force is 2s along -d plus 0.6s along perp, s being the
\* field's effective strength at the point; in flow.js's getForce and in
\* the shader's getForceFieldEffect.
C23_GravityLaw ==
    /\ \A i \in 1..Len(forceFields) : \A o \in ProbeOffsets :
          forceFields[i].type = "gravity" => CpuObeysGravityLaw(forceFields[i], o)
    /\ \A i \in 1..Len(flowFieldsGL.forceFields) : \A o \in ProbeOffsets :
          flowFieldsGL.forceFields[i].type = 3 =>
             GpuObeysGravityLaw(GetForceFieldUniforms(flowFieldsGL)[i - 1], o)

\* What does hold: flow.js obeys the law; the shader's tangential part is
\* 0.3s, that is 0.15 of its inward part.
GravityAsCoded ==
    /\ \A i \in 1..Len(forceFields) : \A o \in ProbeOffsets :
          forceFields[i].type = "gravity" => CpuObeysGravityLaw(forceFields[i], o)
    /\ \A i \in 1..Len(flowFieldsGL.forceFields) : \A o \in ProbeOffsets :
          flowFieldsGL.forceFields[i].type = 3 =>
             \E u \in { GetForceFieldUniforms(flowFieldsGL)[i - 1] } :
             \E dist \in { Length(o.x, o.y) } :
                FieldContribution(u, Vec(RAdd(u.x, o.x), RAdd(u.y, o.y)), flowFieldsGL.config.time)
                  = VAdd(VScale(Normalize(o, dist), RNeg(RMul(I(2), ScaledStrength(u, dist)))),
                         VScale(Perp(o, dist), RMul(Rat(3, 10), ScaledStrength(u, dist))))

\* C27 (checked under SpecField): the fields a frame leaves are the fields
\* its particles evaluated, after the frame's filter and update.  For each
\* of them the fade factor of getForce lies in [0, 1], so that a sink never
\* pushes away from its centre; for every initial life, non-integer lives
\* included.
C27_FadeFactorInRange ==
    \A i \in 1..Len(forceFields) :
        /\ RLe(Zero, LifeFactor(forceFields[i]))
        /\ RLe(LifeFactor(forceFields[i]), One)
        /\ forceFields[i].type = "sink" =>
              \A o \in ProbeOffsets :
                 \E force \in { GetForce(forceFields[i], RAdd(forceFields[i].x, o.x),
                                         RAdd(forceFields[i].y, o.y), time) } :
                    RLe(Dot(Vec(force.fx, force.fy), o), Zero)

\* What does hold: the factor never exceeds 1, and it is in [0, 1] for
\* every field whose initial life is an integer.
FadeFactorOfIntegerLife ==
    \A i \in 1..Len(forceFields) :
        /\ RLe(LifeFactor(forceFields[i]), One)
        /\ forceFields[i].maxLife.d = 1 => RLe(Zero, LifeFactor(forceFields[i]))

---------------------------------------------------------------------------
(* SpecGrid: flow.js with two particles.  reset() places each particle     *)
(* with its own draws, on and next to the borders of the 40-pixel cells;   *)
(* a frame then moves them.                                                *)

MaxGridTime == 1

GridConfig ==
    [CpuDefaultConfig EXCEPT !.particleCount = 2, !.noiseMode = 5,
                             !.brownianMotion = Zero, !.particleInteraction = "none"]

\* Math.random() for the two coordinates of a new particle: x at 0, 39.9,
\* 40, 80 and 89, y at 0, 40 and 50 on the 800 x 600 canvas.
GridDraws ==
    { [ParticleStepDraws EXCEPT !.x = dx, !.y = dy] :
        dx \in { Zero, Rat(399, 8000), Rat(1, 20), Rat(1, 10), Rat(89, 800) },
        dy \in { Zero, Rat(1, 15), Rat(1, 12) } }

\* init(): every new Particle() takes its own draws.
InitParticlesEach(rs, cv, cfg) ==
    << >> \o [i \in 1..cfg.particleCount |-> ParticleReset(rs[i], cv, cfg)]

\* new NoiseGenerator() where Math.random() gives 1/2: seed 5000.
ReseededNoise == NoiseGenerator(RMul(Half, I(10000)))

\* keydown 'r': reset()
GridReset(rs) ==
    /\ noise' = ReseededNoise
    /\ particles' = InitParticlesEach(rs, canvas, config)
    /\ UNCHANGED <<forceFields, config, time, paused, animationId, spawnTypeOnClick, canvas,
                   cpuMouse, glVars, pageVars>>

InitGrid ==
    /\ NoWebGL
    /\ forceFields = << >>
    /\ config = GridConfig
    /\ time = 0
    /\ paused = FALSE
    /\ animationId = "request"
    /\ spawnTypeOnClick = "random"
    /\ canvas = Window
    /\ cpuMouse = InitialMouse
    /\ noise = NoiseGenerator(I(5000))
    /\ OtherPagesNotLoaded
    /\ \E r \in GridDraws : particles = InitParticles(r, canvas, config)

NextGrid ==
    \/ \E rs \in [1..GridConfig.particleCount -> GridDraws] :
          /\ time = 0
          /\ ~paused
          /\ GridReset(rs)
    \/ \E r \in QuietFrameDraws : time < MaxGridTime /\ CpuAnimate(r)
    \/ TogglePause

SpecGrid == InitGrid /\ [][NextGrid]_vars

\* The radii getNearbyParticles is asked with; config.interactionRadius is 50.
GridRadii == { Half, One, I(40), I(50), I(81), I(1000) }

\* Where getNearbyParticles is asked: at every particle, as update() does,
\* and at points on and off the cell borders.
GridProbes(ps) ==
    { Vec(ps[i].x, ps[i].y) : i \in 1..Len(ps) }
        \cup { Vec(I(40), I(40)), Vec(Rat(-1, 2), I(20)), Vec(I(79), I(41)) }

\* (px - x)^2 + (py - y)^2
DistSq(p, q) == RAdd(RMul(RSub(p.x, q.x), RSub(p.x, q.x)), RMul(RSub(p.y, q.y), RSub(p.y, q.y)))

Occurrences(seq, v) == Cardinality({ k \in 1..Len(seq) : seq[k] = v })

\* C29: with the grid built from the particles as they are, every query
\* getNearbyParticles(x, y, r) returns each particle at most once, so no
\* particle is filed under two cells, and returns every particle whose
\* distance to (x, y) is less than r exactly once, so none is left out of
\* the grid and no neighbour within r is missed, for cell size 40 and
\* every radius asked.
C29_SpatialGridExact ==
    \A q \in GridProbes(particles) : \A r \in GridRadii :
       \E near \in { GetNearbyParticles(BuildSpatialGrid(particles), q.x, q.y, r) } :
          \A i \in 1..Len(particles) :
             /\ Occurrences(near, i) <= 1
             /\ RLt(DistSq(particles[i], q), RMul(r, r)) => Occurrences(near, i) = 1

\* Two particles less than 1/2 apart on the two sides of a cell border.
C29_Witness ==
    /\ Len(particles) = 2
    /\ GetSpatialKey(particles[1].x, particles[1].y) # GetSpatialKey(particles[2].x, particles[2].y)
    /\ RLt(DistSq(particles[1], particles[2]), Rat(1, 4))
    /\ 2 \in { GetNearbyParticles(BuildSpatialGrid(particles), particles[1].x, particles[1].y, Half)[k] :
                 k \in 1..Len(GetNearbyParticles(BuildSpatialGrid(particles),
                                                 particles[1].x, particles[1].y, Half)) }

---------------------------------------------------------------------------
(* The boids page.  boidsPage holds its globals: config, boids, mouse and  *)
(* the canvas size.  A boid is the position its constructor gives it;      *)
(* animate() moves the boids and never adds or removes one.                *)

\* a ?? b
Nullish(a, b) == IF a = NullValue THEN b ELSE a

BoidsConfig == [boidCount |-> 200]

\* Math.random() for the position of a boid made without arguments.
BoidDraws == [x |-> Rat(1, 4), y |-> Rat(1, 4)]

\* new Boid(x, y)
Boid(x, y, r, cv) ==
    [ x |-> Nullish(x, RMul(r.x, cv.width)), y |-> Nullish(y, RMul(r.y, cv.height)) ]

\* init() of the boids page
BoidsInit(cfg, mouse0, innerWidth, innerHeight, r) ==
    Only({ [ config |-> cfg, mouse |-> mouse0, canvas |-> cv,
             boids |-> << >> \o [i \in 1..cfg.boidCount |-> Boid(NullValue, NullValue, r, cv)] ] :
           cv \in { [width |-> innerWidth, height |-> innerHeight] } })

\* addBoids(count)
AddBoids(page, count, r) ==
    [page EXCEPT !.boids =
        @ \o [i \in 1..count |->
                Boid(Nullish(page.mouse.x, RDiv(page.canvas.width, I(2))),
                     Nullish(page.mouse.y, RDiv(page.canvas.height, I(2))), r, page.canvas)]]

\* Array.prototype.splice(start, deleteCount) with start = 0: deleteCount
\* is clamped to [0, length].
SpliceFront(seq, deleteCount) ==
    Only({ SubSeq(seq, n + 1, Len(seq)) :
           n \in { IF deleteCount < 0 THEN 0
                   ELSE IF deleteCount > Len(seq) THEN Len(seq) ELSE deleteCount } })

\* The wheel listener removing -delta boids whatever the length.
WheelRemoveAll(bs, delta) == SpliceFront(bs, -delta)

\* boids.splice(0, Math.min(-delta, boids.length - 10))
WheelRemove(bs, delta) ==
    SpliceFront(bs, IF -delta < Len(bs) - 10 THEN -delta ELSE Len(bs) - 10)

\* The wheel listener.
WheelHandler(page, deltaY, r) ==
    Only({ IF delta > 0
           THEN AddBoids(page, delta, r)
           ELSE [page EXCEPT !.boids = WheelRemove(@, delta)] :
           delta \in { IF deltaY > 0 THEN -10 ELSE 10 } })

MaxBoids == 210
\* addBoids is called by hand while fewer boids than this are left.
MaxHandAdd == 11

\* The other two pages, left as flow.js and the WebGL page start.
BoidsPageOnly ==
    /\ NoWebGL
    /\ forceFields = << >>
    /\ config = CpuDefaultConfig
    /\ time = 0
    /\ paused = FALSE
    /\ animationId = "request"
    /\ spawnTypeOnClick = "random"
    /\ particles = << >>
    /\ canvas = Window
    /\ cpuMouse = InitialMouse
    /\ noise = ReseededNoise
    /\ rainbowLife = Undefined
    /\ pointerLeft = FALSE

InitBoids ==
    /\ BoidsPageOnly
    /\ boidsPage = BoidsInit(BoidsConfig, [x |-> NullValue, y |-> NullValue, active |-> FALSE],
                             Window.width, Window.height, BoidDraws)

BoidsUnchanged == UNCHANGED <<glVars, cpuVars, rainbowLife, pointerLeft>>

\* canvas 'wheel'
BoidsWheel(deltaY) ==
    /\ boidsPage' = WheelHandler(boidsPage, deltaY, BoidDraws)
    /\ BoidsUnchanged

\* addBoids(count), called by hand
BoidsAdd(count) ==
    /\ boidsPage' = AddBoids(boidsPage, count, BoidDraws)
    /\ BoidsUnchanged

\* reset()
BoidsReset(r) ==
    /\ boidsPage' = BoidsInit(boidsPage.config, boidsPage.mouse, Window.width, Window.height, r)
    /\ BoidsUnchanged

\* canvas 'mousemove'
BoidsMouseMove(clientX, clientY) ==
    /\ boidsPage' = [boidsPage EXCEPT !.mouse = [x |-> clientX, y |-> clientY, active |-> TRUE]]
    /\ BoidsUnchanged

\* canvas 'mouseleave'
BoidsMouseLeave ==
    /\ boidsPage' = [boidsPage EXCEPT !.mouse.active = FALSE]
    /\ BoidsUnchanged

WheelUps   == { -100, 0 }
WheelDowns == { 100 }

NextBoids ==
    \/ \E d \in WheelUps : Len(boidsPage.boids) + 10 <= MaxBoids /\ BoidsWheel(d)
    \/ \E d \in WheelDowns : BoidsWheel(d)
    \/ \E c \in { -3, 1, 10 } : Len(boidsPage.boids) < MaxHandAdd /\ BoidsAdd(c)
    \/ BoidsReset(BoidDraws)
    \/ BoidsMouseMove(I(100), I(50))
    \/ BoidsMouseLeave

SpecBoids == InitBoids /\ [][NextBoids]_vars

\* C30: the boids page never holds fewer than 10 boids, and a wheel-down
\* event removes min(10, length - 10) boids from the front of the array,
\* none when that number is not positive, and leaves the others as they were.
C30_PopulationFloor ==
    /\ [](Len(boidsPage.boids) >= 10)
    /\ [][ (\E d \in WheelDowns : BoidsWheel(d)) =>
             \E n \in { IF Len(boidsPage.boids) - 10 < 10 THEN Len(boidsPage.boids) - 10 ELSE 10 } :
                \E removed \in { IF n > 0 THEN n ELSE 0 } :
                   /\ Len(boidsPage'.boids) = Len(boidsPage.boids) - removed
                   /\ boidsPage'.boids = SubSeq(boidsPage.boids, removed + 1, Len(boidsPage.boids)) ]_vars

\* Exactly 10 boids are left after wheel-downs that removed boids added at
\* the pointer; one more wheel-down then removes none.
C30_Witness ==
    /\ Len(boidsPage.boids) = 10
    /\ boidsPage.boids[10] = [x |-> I(100), y |-> I(50)]
    /\ WheelHandler(boidsPage, 100, BoidDraws).boids = boidsPage.boids

---------------------------------------------------------------------------
(* The Rainbow Life page.  rainbowLife holds its globals: cols, rows, grid,*)
(* nextGrid, generation, paused, showTrails, ruleSet and isDrawing.  A     *)
(* grid is indexed from 0, as the arrays are.  In SpecLife the grid is     *)
(* randomized, cleared, drawn on and resized, and the trails are switched, *)
(* before the first generation; frames come while no button is held.       *)

cellSize == 6

\* rules: survive and birth lists, by ruleSet + 1.
rules ==
    << [name |-> "Classic Life",       survive |-> {2, 3},          birth |-> {3}],
       [name |-> "HighLife",           survive |-> {2, 3},          birth |-> {3, 6}],
       [name |-> "Day & Night",        survive |-> {3, 4, 6, 7, 8}, birth |-> {3, 6, 7, 8}],
       [name |-> "Seeds",              survive |-> {},              birth |-> {2}],
       [name |-> "Life without Death", survive |-> 0..8,            birth |-> {3}],
       [name |-> "Diamoeba",           survive |-> {5, 6, 7, 8},    birth |-> {3, 5, 6, 7, 8}] >>

\* createGrid()
CreateGrid(cols, rows) ==
    [i \in 0..(cols - 1) |-> [j \in 0..(rows - 1) |-> [alive |-> FALSE, age |-> 0, hue |-> Zero]]]

\* randomize(): r.alive[<<i, j>>] and r.hue are what Math.random() gives.
Randomize(self, r) ==
    [self EXCEPT
        !.generation = 0,
        !.grid = [i \in 0..(self.cols - 1) |-> [j \in 0..(self.rows - 1) |->
                    Only({ [alive |-> alive, age |-> IF alive THEN 1 ELSE 0, hue |-> r.hue] :
                           alive \in { RLt(r.alive[<<i, j>>], Rat(15, 100)) } })]]]

\* clearGrid()
ClearGrid(self) ==
    [self EXCEPT !.generation = 0, !.grid = CreateGrid(self.cols, self.rows)]

\* init() of the Rainbow Life page; the globals it leaves alone keep their
\* values.
LifeInit(self, innerWidth, innerHeight, r) ==
    Only({ Randomize([self EXCEPT !.cols = cols, !.rows = rows,
                                  !.grid = CreateGrid(cols, rows),
                                  !.nextGrid = CreateGrid(cols, rows)], r) :
           cols \in { innerWidth \div cellSize }, rows \in { innerHeight \div cellSize } })

\* The (i, j) of countNeighbors' two loops, in their order.
NeighborOffsets ==
    << <<-1, -1>>, <<-1, 0>>, <<-1, 1>>, <<0, -1>>, <<0, 1>>, <<1, -1>>, <<1, 0>>, <<1, 1>> >>

\* The loops of countNeighbors from offset k on: count and hueSum.
RECURSIVE NeighborLoop(_, _, _, _, _, _, _)
NeighborLoop(grid, cols, rows, x, y, k, acc) ==
    IF k > Len(NeighborOffsets) THEN acc
    ELSE Only({ NeighborLoop(grid, cols, rows, x, y, k + 1,
                             IF cell.alive
                             THEN [count |-> acc.count + 1, hueSum |-> RAdd(acc.hueSum, cell.hue)]
                             ELSE acc) :
                cell \in { grid[(x + NeighborOffsets[k][1] + cols) % cols]
                               [(y + NeighborOffsets[k][2] + rows) % rows] } })

\* countNeighbors(x, y); random is Math.random() for a cell without a live
\* neighbour.
CountNeighbors(grid, cols, rows, x, y, random) ==
    Only({ [count |-> n.count,
            avgHue |-> IF n.count > 0 THEN RDiv(n.hueSum, I(n.count)) ELSE random] :
           n \in { NeighborLoop(grid, cols, rows, x, y, 1, [count |-> 0, hueSum |-> Zero]) } })

\* The cell update() computes for (i, j).
NextCell(cell, n, rule, showTrails) ==
    IF cell.alive
    THEN IF n.count \in rule.survive
         THEN [alive |-> TRUE, age |-> cell.age + 1, hue |-> Fract(RAdd(cell.hue, Rat(1, 1000)))]
         ELSE [alive |-> FALSE, age |-> cell.age, hue |-> cell.hue]
    ELSE IF n.count \in rule.birth
         THEN [alive |-> TRUE, age |-> 1, hue |-> Fract(RAdd(n.avgHue, Rat(2, 100)))]
         ELSE [alive |-> FALSE,
               age |-> IF showTrails THEN (IF cell.age - 1 > 0 THEN cell.age - 1 ELSE 0) ELSE 0,
               hue |-> cell.hue]

\* The body of update()'s loops writing its cell into grid as well.
UpdateCellInPlace(self, i, j, random) ==
    Only({ [self EXCEPT !.nextGrid[i][j] = cell, !.grid[i][j] = cell] :
           cell \in { NextCell(self.grid[i][j],
                               CountNeighbors(self.grid, self.cols, self.rows, i, j, random),
                               rules[self.ruleSet + 1], self.showTrails) } })

\* The body of update()'s loops for (i, j).
UpdateCell(self, i, j, random) ==
    [self EXCEPT !.nextGrid[i][j] =
        NextCell(self.grid[i][j], CountNeighbors(self.grid, self.cols, self.rows, i, j, random),
                 rules[self.ruleSet + 1], self.showTrails)]

\* update()'s loops from cell k on, k = i * rows + j.
RECURSIVE LifeUpdateLoop(_, _, _)
LifeUpdateLoop(self, k, random) ==
    IF k >= self.cols * self.rows THEN self
    ELSE Only({ LifeUpdateLoop(next, k + 1, random) :
                next \in { UpdateCell(self, k \div self.rows, k % self.rows, random) } })

\* update()
LifeUpdate(self, random) ==
    Only({ [looped EXCEPT !.grid = looped.nextGrid, !.nextGrid = looped.grid,
                          !.generation = @ + 1] :
           looped \in { LifeUpdateLoop(self, 0, random) } })

\* drawCell(e): r.on[<<dx, dy>>] is Math.random() for that cell of the
\* cluster, r.now Date.now().
DrawCell(self, clientX, clientY, r) ==
    Only({ IF x >= 0 /\ x < self.cols /\ y >= 0 /\ y < self.rows
           THEN [self EXCEPT !.grid =
                   [i \in 0..(self.cols - 1) |-> [j \in 0..(self.rows - 1) |->
                       IF \E dx \in -1..1 : \E dy \in -1..1 :
                             /\ (x + dx + self.cols) % self.cols = i
                             /\ (y + dy + self.rows) % self.rows = j
                             /\ RLt(r.on[<<dx, dy>>], Rat(7, 10))
                       THEN [alive |-> TRUE, age |-> 1, hue |-> Fract(Rat(r.now, 5000))]
                       ELSE self.grid[i][j]]]]
           ELSE self :
           x \in { clientX \div cellSize }, y \in { clientY \div cellSize } })

MaxGeneration == 2

\* The live cells the patterns below ask for.
LifePatterns ==
    { {},
      { <<1, 0>>, <<1, 1>>, <<1, 2>> },
      { <<1, 1>>, <<1, 2>>, <<2, 1>>, <<2, 2>> },
      { <<1, 0>>, <<2, 1>>, <<0, 2>>, <<1, 2>>, <<2, 2>> },
      { <<0, 0>>, <<1, 0>> },
      { <<0, 0>>, <<0, 1>>, <<0, 2>>, <<1, 0>>, <<1, 2>>, <<2, 0>>, <<2, 1>>, <<2, 2>> },
      ((0..3) \X (0..3)) \ { <<3, 3>>, <<0, 3>> } }

\* The draws of randomize() that make exactly the cells of a pattern live.
RandomizeDraws ==
    { [alive |-> [c \in (0..3) \X (0..3) |-> IF c \in p THEN Rat(1, 10) ELSE Half],
       hue |-> Rat(1, 8)] : p \in LifePatterns }

\* The draws of drawCell: the cluster without its corners.
ClusterDraws ==
    [on |-> [d \in (-1..1) \X (-1..1) |-> IF (d[1] + d[2]) % 2 = 0 /\ d # <<0, 0>>
                                             THEN Rat(9, 10) ELSE Half],
     now |-> 1000]

\* Window sizes: 4 x 4 cells, and 3 x 2 cells.
LifeWindows == { <<24, 24>>, <<18, 14>> }

\* The other two pages, left as flow.js and the WebGL page start.
LifePageOnly ==
    /\ NoWebGL
    /\ forceFields = << >>
    /\ config = CpuDefaultConfig
    /\ time = 0
    /\ paused = FALSE
    /\ animationId = "request"
    /\ spawnTypeOnClick = "random"
    /\ particles = << >>
    /\ canvas = Window
    /\ cpuMouse = InitialMouse
    /\ noise = ReseededNoise
    /\ boidsPage = Undefined
    /\ pointerLeft = FALSE

\* The globals as their declarations leave them.
LifeGlobals ==
    [ cols |-> 0, rows |-> 0, grid |-> Undefined, nextGrid |-> Undefined, generation |-> 0,
      paused |-> FALSE, showTrails |-> TRUE, ruleSet |-> 0, isDrawing |-> FALSE ]

InitLife ==
    /\ LifePageOnly
    /\ \E r \in RandomizeDraws : rainbowLife = LifeInit(LifeGlobals, 24, 24, r)

LifeUnchanged == UNCHANGED <<glVars, cpuVars, boidsPage, pointerLeft>>

\* animate() of the Rainbow Life page
LifeAnimate(random) ==
    /\ rainbowLife' = IF ~rainbowLife.paused THEN LifeUpdate(rainbowLife, random) ELSE rainbowLife
    /\ LifeUnchanged

\* keydown ' ': togglePause()
LifeTogglePause ==
    /\ rainbowLife' = [rainbowLife EXCEPT !.paused = ~@]
    /\ LifeUnchanged

\* cycleRules()
LifeCycleRules ==
    /\ rainbowLife' = [rainbowLife EXCEPT !.ruleSet = (@ + 1) % Len(rules)]
    /\ LifeUnchanged

\* toggleTrails()
LifeToggleTrails ==
    /\ rainbowLife' = [rainbowLife EXCEPT !.showTrails = ~@]
    /\ LifeUnchanged

\* keydown 'r': randomize()
LifeRandomize(r) ==
    /\ rainbowLife' = Randomize(rainbowLife, r)
    /\ LifeUnchanged

\* keydown 'c': clearGrid()
LifeClear ==
    /\ rainbowLife' = ClearGrid(rainbowLife)
    /\ LifeUnchanged

\* canvas 'mousedown'
LifeMouseDown(clientX, clientY, r) ==
    /\ rainbowLife' = DrawCell([rainbowLife EXCEPT !.isDrawing = TRUE], clientX, clientY, r)
    /\ LifeUnchanged

\* canvas 'mousemove'
LifeMouseMove(clientX, clientY, r) ==
    /\ rainbowLife' = IF rainbowLife.isDrawing THEN DrawCell(rainbowLife, clientX, clientY, r)
                      ELSE rainbowLife
    /\ LifeUnchanged

\* canvas 'mouseup' and 'mouseleave'
LifeMouseUp ==
    /\ rainbowLife' = [rainbowLife EXCEPT !.isDrawing = FALSE]
    /\ LifeUnchanged

\* window 'resize': init()
LifeResize(innerWidth, innerHeight, r) ==
    /\ rainbowLife' = LifeInit(rainbowLife, innerWidth, innerHeight, r)
    /\ LifeUnchanged

NextLife ==
    \/ \E random \in { Rat(3, 8) } :
          /\ rainbowLife.paused \/ rainbowLife.generation < MaxGeneration
          /\ ~rainbowLife.isDrawing
          /\ LifeAnimate(random)
    \/ LifeTogglePause
    \/ LifeCycleRules
    \/ rainbowLife.generation = 0 /\ LifeToggleTrails
    \/ \E r \in RandomizeDraws : rainbowLife.generation = 0 /\ LifeRandomize(r)
    \/ rainbowLife.generation = 0 /\ LifeClear
    \/ rainbowLife.generation = 0 /\ LifeMouseDown(7, 13, ClusterDraws)
    \/ rainbowLife.generation = 0 /\ LifeMouseMove(13, 7, ClusterDraws)
    \/ LifeMouseUp
    \/ \E w \in LifeWindows : \E r \in RandomizeDraws :
          /\ rainbowLife.generation = 0
          /\ LifeResize(w[1], w[2], r)

SpecLife == InitLife /\ [][NextLife]_vars

\* The live neighbours of (i, j) on the torus, counted once per direction.
RefCount(grid, cols, rows, i, j) ==
    Cardinality({ d \in ((-1..1) \X (-1..1)) \ { <<0, 0>> } :
                    grid[(i + d[1]) % cols][(j + d[2]) % rows].alive })

\* One generation of the cellular automaton with the given survive and
\* birth lists: the cells that are live afterwards.
RefStep(grid, cols, rows, rule) ==
    { c \in (0..(cols - 1)) \X (0..(rows - 1)) :
        IF grid[c[1]][c[2]].alive
        THEN RefCount(grid, cols, rows, c[1], c[2]) \in rule.survive
        ELSE RefCount(grid, cols, rows, c[1], c[2]) \in rule.birth }

\* C28: a frame of Rainbow Life that is not paused leaves as grid the
\* generation that a reference step of the active rule computes from the
\* grid it found (8 toroidal neighbours and the cell's own state), leaves
\* as nextGrid the grid it found, cell for cell, and adds exactly 1 to
\* generation.  (A frame leaves the flags and the size alone; the steps
\* that do are told from those that do not before update() is evaluated.)
C28_SynchronousStep ==
    [][ ( /\ ~rainbowLife.paused
          /\ rainbowLife'.paused = rainbowLife.paused
          /\ rainbowLife'.ruleSet = rainbowLife.ruleSet
          /\ rainbowLife'.showTrails = rainbowLife.showTrails
          /\ rainbowLife'.isDrawing = rainbowLife.isDrawing
          /\ rainbowLife'.cols = rainbowLife.cols
          /\ rainbowLife'.rows = rainbowLife.rows
          /\ \E random \in { Rat(3, 8) } : LifeAnimate(random) ) =>
          /\ { c \in (0..(rainbowLife.cols - 1)) \X (0..(rainbowLife.rows - 1)) :
                 rainbowLife'.grid[c[1]][c[2]].alive }
               = RefStep(rainbowLife.grid, rainbowLife.cols, rainbowLife.rows,
                         rules[rainbowLife.ruleSet + 1])
          /\ rainbowLife'.nextGrid = rainbowLife.grid
          /\ rainbowLife'.generation = rainbowLife.generation + 1 ]_vars

\* After two generations on the 4 x 4 torus some cell has died, some cell
\* has been born and some cell has survived both.
C28_Witness ==
    /\ rainbowLife.generation = 2
    /\ rainbowLife.cols = 4
    /\ \E c \in (0..3) \X (0..3) :
          rainbowLife.grid[c[1]][c[2]].alive /\ rainbowLife.grid[c[1]][c[2]].age = 3
    /\ \E c \in (0..3) \X (0..3) :
          rainbowLife.grid[c[1]][c[2]].alive /\ rainbowLife.grid[c[1]][c[2]].age = 1
    /\ \E c \in (0..3) \X (0..3) :
          ~rainbowLife.grid[c[1]][c[2]].alive /\ rainbowLife.nextGrid[c[1]][c[2]].alive

---------------------------------------------------------------------------
(* SpecPointer: both pages under pointer events.  flow.js has two          *)
(* particles, one at the middle of the canvas; the WebGL page has one.     *)
(* flow.js frames come with the pointer present only while the particles   *)
(* are where they started, and WebGL frames while the pointer is away and  *)
(* no field was tapped, so that every distance the mouse blocks take is    *)
(* rational and small.                                                     *)

MaxPointerTime == 1

PointerConfig ==
    [CpuDefaultConfig EXCEPT !.particleCount = 2, !.particleInteraction = "none",
                             !.respawnRate = Zero]

\* canvas 'mousemove' listener of flow.js
CpuMouseMove(clientX, clientY) ==
    /\ cpuMouse' = [cpuMouse EXCEPT !.x = clientX, !.y = clientY, !.active = TRUE]
    /\ pointerLeft' = FALSE
    /\ UNCHANGED <<forceFields, config, time, paused, animationId, spawnTypeOnClick, particles,
                   canvas, noise, glVars, boidsPage, rainbowLife>>

\* canvas 'mouseleave' listener of flow.js
CpuMouseLeave ==
    /\ cpuMouse' = [cpuMouse EXCEPT !.active = FALSE]
    /\ pointerLeft' = TRUE
    /\ UNCHANGED <<forceFields, config, time, paused, animationId, spawnTypeOnClick, particles,
                   canvas, noise, glVars, boidsPage, rainbowLife>>

\* canvas 'mouseenter' listener of flow.js
CpuMouseEnter ==
    /\ cpuMouse' = [cpuMouse EXCEPT !.active = TRUE]
    /\ UNCHANGED <<forceFields, config, time, paused, animationId, spawnTypeOnClick, particles,
                   canvas, noise, glVars, pageVars>>

\* canvas 'mousemove' listener of the WebGL page
MouseMove(clientX, clientY) ==
    /\ flowFieldsGL # Undefined
    /\ flowFieldsGL' = [flowFieldsGL EXCEPT !.mouse.x = clientX,
                                            !.mouse.y = RSub(glCanvas.height, clientY)]
    /\ UNCHANGED <<glCanvas, glRaf, initResult, physicsPass, cpuVars, pageVars>>

\* canvas 'mouseleave' listener of the WebGL page
MouseLeave ==
    /\ flowFieldsGL # Undefined
    /\ flowFieldsGL' = [flowFieldsGL EXCEPT !.mouse.x = I(-1000), !.mouse.y = I(-1000)]
    /\ UNCHANGED <<glCanvas, glRaf, initResult, physicsPass, cpuVars, pageVars>>

\* canvas 'touchmove' listener of the WebGL page
TouchMove(clientX, clientY) ==
    /\ flowFieldsGL # Undefined
    /\ flowFieldsGL' = [flowFieldsGL EXCEPT !.mouse.x = clientX,
                                            !.mouse.y = RSub(glCanvas.height, clientY)]
    /\ UNCHANGED <<glCanvas, glRaf, initResult, physicsPass, cpuVars, pageVars>>

\* Where the pointer is put: 30 pixels from a particle, and far from all.
PointerPoints == { Vec(I(430), I(300)), Vec(I(630), I(300)), Vec(I(100), I(550)) }

InitPointer ==
    /\ glCanvas = Window
    /\ \E d \in { p \in ParticleDraws : p.x = Rat(3, 4) /\ p.vx = Zero } :
       \E r \in PhysicsFrameDraws :
         \E a \in { Started(PhysicsConfig,
                             GoodEnv(PhysicsParticles, [i \in 1..PhysicsParticles |-> d]), r) } :
            /\ flowFieldsGL = a.self
            /\ physicsPass = a.pass
    /\ glRaf = 1
    /\ initResult = "true"
    /\ forceFields = << >>
    /\ config = PointerConfig
    /\ time = 0
    /\ paused = FALSE
    /\ animationId = "request"
    /\ spawnTypeOnClick = "random"
    /\ canvas = Window
    /\ cpuMouse = InitialMouse
    /\ noise = ReseededNoise
    /\ OtherPagesNotLoaded
    /\ particles = [i \in 1..PointerConfig.particleCount |->
                      ParticleReset([ParticleStepDraws EXCEPT !.x = Rat(1, 2 * i)],
                                    Window, PointerConfig)]

\* The WebGL pointer is at its resting place.
GlPointerAway ==
    /\ flowFieldsGL.mouse.x = I(-1000)
    /\ flowFieldsGL.mouse.y = I(-1000)

NextPointer ==
    \/ \E q \in PointerPoints : CpuMouseMove(q.x, q.y)
    \/ CpuMouseLeave
    \/ CpuMouseEnter
    \/ \E r \in QuietFrameDraws :
          /\ time < MaxPointerTime
          /\ time = 0 \/ ~cpuMouse.active
          /\ CpuAnimate(r)
    \/ \E q \in PointerPoints : MouseMove(q.x, q.y)
    \/ MouseLeave
    \/ \E q \in PointerPoints : TouchStart(q.x, q.y)
    \/ \E q \in PointerPoints : TouchMove(q.x, q.y)
    \/ \E q \in PointerPoints : \E d \in SpawnDraws :
          /\ Len(flowFieldsGL.forceFields) < 1
          /\ TouchEnd(q.x, q.y, d)
    \/ \E r \in PhysicsFrameDraws :
          /\ flowFieldsGL.config.time < MaxPointerTime + 1
          /\ GlPointerAway
          /\ Len(flowFieldsGL.forceFields) = 0
          /\ Frame(r)

SpecPointer == InitPointer /\ [][NextPointer]_vars

\* flow.js: the frame's mouse block acts on no particle inside the canvas.
CpuNoMouseForce ==
    \A i \in 1..Len(particles) :
       InBounds(particles[i], canvas) => ~MouseReaches(particles[i], cpuMouse)

\* The corners of the canvas, the places nearest to where the pointer rests.
CanvasCorners(cv) == { Vec(px, py) : px \in { Zero, cv.width }, py \in { Zero, cv.height } }

\* The WebGL page: main() computes a zero mouseForce for every particle
\* inside the canvas, and would for one in a corner.
GlNoMouseForce ==
    /\ \A i \in 1..Len(flowFieldsGL.particleTextures[flowFieldsGL.currentTexture]) :
          \E texel \in { flowFieldsGL.particleTextures[flowFieldsGL.currentTexture][i] } :
             InBounds(texel, glCanvas) =>
                MouseForce(Vec(texel.x, texel.y), flowFieldsGL.mouse, flowFieldsGL.config.speed)
                   = VZero
    /\ \A pos \in CanvasCorners(glCanvas) :
          MouseForce(pos, flowFieldsGL.mouse, flowFieldsGL.config.speed) = VZero

\* The WebGL half of C24: with the pointer at its resting place, where
\* mouseleave and touchend put it, no particle inside the canvas gets a mouse
\* force, and only a mousemove, touchstart or touchmove takes the pointer
\* from there.
GlPointerDeactivation ==
    /\ [](GlPointerAway => GlNoMouseForce)
    /\ [][ (GlPointerAway /\ ~GlPointerAway') =>
             \E q \in PointerPoints :
                MouseMove(q.x, q.y) \/ TouchStart(q.x, q.y) \/ TouchMove(q.x, q.y) ]_vars

\* What holds of flow.js: while mouse.active is false no particle receives
\* a mouse force; the mouseenter listener sets it true again and leaves the
\* position the pointer had before it left.
InactivePointerNoForce == ~cpuMouse.active => CpuNoMouseForce

\* A frame of flow.js that comes after the pointer left leaves the
\* particles where a frame without the mouse block leaves them.
FrameAfterLeaveNoForce ==
    [][ (pointerLeft /\ \E r \in QuietFrameDraws : CpuAnimate(r)) =>
          \A i \in 1..Len(particles) :
             particles'[i] = MoveOrReset(particles[i], BackgroundMove(particles[i], config, time),
                                         ParticleStepDraws, canvas, config) ]_vars

\* C24: from a pointer-leave (on the WebGL page also a touch end) until the
\* next pointer move, no particle inside the canvas receives a mouse force:
\* in flow.js the mouse block of update() acts on none, on the WebGL page
\* main() computes a zero mouseForce for each.
C24_PointerDeactivation ==
    /\ [](pointerLeft => CpuNoMouseForce)
    /\ FrameAfterLeaveNoForce
    /\ GlPointerDeactivation

=============================================================================
